---- MODULE Spec2Model ----
(***************************************************************************)
(* Verification model of agentic-shareable-api: the connection store, the *)
(* transient token service, the WebSocket auth gate and the WebSocket     *)
(* connection lifecycle (connect, frames, disconnect).                    *)
(*                                                                         *)
(* Optional JavaScript values are sequences of length at most one:         *)
(* <<>> is undefined/null, <<v>> is the value v.                           *)
(* A command string is the sequence of its ':'-separated segments, i.e.    *)
(* the result of String.prototype.split(':').                              *)
(***************************************************************************)
EXTENDS Integers, Sequences, FiniteSets, TLC

VARIABLES
  backend,      \* "memory" (IS_OFFLINE) or "dynamodb": which connection manager is the instance
  now,          \* Math.floor(Date.now() / 1000)
  store,        \* the connections Map / the DynamoDB table: connectionId -> optional record
  lastGet,      \* the last getConnection call: its id, its result, whether the stored record was expired
  lastOp        \* the last store, token or gate operation called directly

VARIABLES
  tkImpl,       \* which transient-token.ts is built: verify returns null, or verify throws
  tkPayload,    \* the ShareableContext last given to generate
  tkTtl,        \* the expiresIn of that generate call
  tkToken,      \* the token presented to verify (optional)
  tkOrigin,     \* where that token comes from: "none", "generate", "malformed", "forged"
  tkIssued,     \* the clock when generate was called
  tkOut         \* the outcome of the last generate / verify call

VARIABLES
  gtRecord,     \* the ConnectionRecord handed to requireAuthentication
  gtCommand,    \* the command handed to requireAuthentication
  gtOut         \* what the call raised (optional coded error), once it has run

VARIABLES
  sock,         \* connectionId -> "idle", "open", "closing" (server called ws.close) or "closed"
  registered,   \* connectionId -> the websocket client's connections map holds the socket
  connectSave,  \* connectionId -> the connect-time saveConnection: "none", "pending", "done", "failed"
  disconnectDel,\* connectionId -> the close-time deleteConnection: "none", "pending", "done", "failed"
  tasks,        \* connectionId -> the handleMessage invocations of its frames, in arrival order
  outbox,       \* connectionId -> the frames pushed to the client's socket
  sentAuth,     \* connectionId -> a frame resolving to `authenticate` has arrived
  authOk        \* connectionId -> an authenticate has saved an authenticated record

VARIABLES
  hReq,         \* the HTTP request being handled (optional)
  hOut,         \* what handling it did: status, whether next / the handler ran, the context seen
  dcOut,        \* the last handleDisconnect call: its id and whether it raised (optional)
  mw,           \* the middleware chain being run: its list, position, event and what ran (optional)
  rq            \* the backend request of the HTTP client: attempts, delays, outcome (optional)

storeVars == <<backend, now, store, lastGet>>
tokenVars == <<tkImpl, tkPayload, tkTtl, tkToken, tkOrigin, tkIssued, tkOut>>
gateVars == <<gtRecord, gtCommand, gtOut>>
wsVars == <<sock, registered, connectSave, disconnectDel, tasks, outbox, sentAuth, authOk>>
httpVars == <<hReq, hOut, mw, rq>>
vars == <<storeVars, lastOp, tokenVars, gateVars, wsVars, httpVars, dcOut>>
nonStore == <<tokenVars, gateVars, wsVars, httpVars, dcOut>>

----------------------------------------------------------------------------
(* Bounds *)

MaxTime == 4          \* the clock runs 0..MaxTime
ConnTTL == 2          \* WS_CONNECTIONS_TTL * 60 * 60, scaled down to clock ticks

ConnIds == {"c1", "c2"}
SessionIds == {<<>>, <<"s1">>}

None == <<>>
Some(x) == <<x>>
IsSome(o) == o # <<>>
Val(o) == o[1]

(* A ShareableContext as the backend issues it for a shareable token. *)
MkContext(tok) ==
  [token |-> tok, type |-> "webchat", id |-> "r1", channels |-> <<"ch1">>]

ShareTokens == {"SHARE1", "SHARE2"}
Contexts == {MkContext(t) : t \in ShareTokens}

(* messageRoutingMap: the registered commands *)
AuthenticateCmd == <<"authenticate">>
BusinessCommands ==
  {<<"webchat", "get-history">>, <<"webchat", "send">>,
   <<"upload", "get-link">>, <<"upload", "confirm">>}
messageRoutingMap == {AuthenticateCmd, <<"resource", "get">>} \cup BusinessCommands

(* properties every object literal inherits from Object.prototype: map[key]  *)
(* is truthy for them although the literal has no such own key; 'constructor' *)
(* is the function Object, '__proto__' is an object that cannot be called     *)
InheritedKeys == {"constructor", "__proto__"}

(* new HttpCodedError(statusCode, message, details, shouldClose = false) *)
HttpCodedError(statusCode, message, shouldClose) ==
  [coded |-> TRUE, statusCode |-> statusCode, message |-> message, shouldClose |-> shouldClose]

(* any other thrown value: not an instance of HttpCodedError *)
PlainError(message) ==
  [coded |-> FALSE, statusCode |-> 0, message |-> message, shouldClose |-> FALSE]

----------------------------------------------------------------------------
(* Values of the variables a specification does not use *)

NoOut == [kind |-> "none", value |-> None]

TokenIdle ==
  /\ tkImpl = "null"
  /\ tkPayload = MkContext("SHARE1")
  /\ tkTtl = 0
  /\ tkToken = None
  /\ tkOrigin = "none"
  /\ tkIssued = 0
  /\ tkOut = NoOut

GateIdle ==
  /\ gtRecord = [connectionId |-> "c1", authenticated |-> FALSE, shareableContext |-> None,
                 sessionId |-> None, connectedAt |-> 0, ttl |-> 0]
  /\ gtCommand = AuthenticateCmd
  /\ gtOut = [ran |-> FALSE, raised |-> None]

WsIdle ==
  /\ sock = [c \in ConnIds |-> "idle"]
  /\ registered = [c \in ConnIds |-> FALSE]
  /\ connectSave = [c \in ConnIds |-> "none"]
  /\ disconnectDel = [c \in ConnIds |-> "none"]
  /\ tasks = [c \in ConnIds |-> <<>>]
  /\ outbox = [c \in ConnIds |-> <<>>]
  /\ sentAuth = [c \in ConnIds |-> FALSE]
  /\ authOk = [c \in ConnIds |-> FALSE]

HttpIdle ==
  /\ hReq = None
  /\ hOut = None
  /\ dcOut = None
  /\ mw = None
  /\ rq = None

----------------------------------------------------------------------------
(* Connection store *)

(* record.ttl && record.ttl < now *)
IsExpired(record, t) == record.ttl # 0 /\ record.ttl < t

M_SaveRecord_AlwaysAuth(connectionId, shareableContext, sessionId, t) ==
  [connectionId |-> connectionId,
   authenticated |-> TRUE,
   shareableContext |-> shareableContext,
   sessionId |-> sessionId,
   connectedAt |-> t,
   ttl |-> t + ConnTTL]

(* the record saveConnection builds: authenticated = !!shareableContext *)
SaveRecord(connectionId, shareableContext, sessionId, t) ==
  [connectionId |-> connectionId,
   authenticated |-> IsSome(shareableContext),
   shareableContext |-> shareableContext,
   sessionId |-> sessionId,
   connectedAt |-> t,
   ttl |-> t + ConnTTL]

M_StorePut_OnePerSession(st, connectionId, shareableContext, sessionId, t) ==
  [c \in ConnIds |->
     IF c = connectionId
       THEN Some(SaveRecord(connectionId, shareableContext, sessionId, t))
     ELSE IF st[c] # None /\ sessionId # None /\ Val(st[c]).sessionId = sessionId
       THEN None
     ELSE st[c]]

(* connections.set / PutCommand *)
StorePut(st, connectionId, shareableContext, sessionId, t) ==
  [st EXCEPT ![connectionId] = Some(SaveRecord(connectionId, shareableContext, sessionId, t))]

M_GetResult_NoExpiry(be, st, connectionId, t) == st[connectionId]

(* the value getConnection resolves to: the in-memory manager hides an     *)
(* expired record, the DynamoDB manager returns result.Item || null         *)
GetResult(be, st, connectionId, t) ==
  IF st[connectionId] = None THEN None
  ELSE IF be = "memory" /\ IsExpired(Val(st[connectionId]), t) THEN None
  ELSE st[connectionId]

M_GetEffect_RefreshesTtl(be, st, connectionId, t) ==
  IF be = "memory" /\ st[connectionId] # None /\ IsExpired(Val(st[connectionId]), t)
  THEN [st EXCEPT ![connectionId] = None]
  ELSE IF st[connectionId] # None
  THEN [st EXCEPT ![connectionId] = Some([Val(@) EXCEPT !.ttl = t + ConnTTL])]
  ELSE st

(* the store after getConnection: the in-memory manager deletes an expired record *)
GetEffect(be, st, connectionId, t) ==
  IF be = "memory" /\ st[connectionId] # None /\ IsExpired(Val(st[connectionId]), t)
  THEN [st EXCEPT ![connectionId] = None]
  ELSE st

M_StoreRemove_KeepsAuthenticated(st, connectionId) ==
  IF st[connectionId] # None /\ Val(st[connectionId]).authenticated
  THEN st
  ELSE [st EXCEPT ![connectionId] = None]

(* connections.delete / DeleteCommand *)
StoreRemove(st, connectionId) == [st EXCEPT ![connectionId] = None]

(* cleanupExpiredConnections: the 60 s interval sweep of the in-memory manager *)
SweepResult(st, t) ==
  [c \in ConnIds |-> IF st[c] # None /\ IsExpired(Val(st[c]), t) THEN None ELSE st[c]]

NoGet == [connectionId |-> "", result |-> None, expired |-> FALSE, purged |-> FALSE]

StoreStart ==
  /\ backend \in {"memory", "dynamodb"}
  /\ now = 0
  /\ store = [c \in ConnIds |-> None]
  /\ lastGet = NoGet
  /\ lastOp = "init"

StoreInit == StoreStart /\ TokenIdle /\ GateIdle /\ WsIdle /\ HttpIdle

(* saveConnection(connectionId, shareableContext?, sessionId?) *)
saveConnection(c, ctx, sid) ==
  /\ store' = StorePut(store, c, ctx, sid, now)
  /\ lastOp' = "save"
  /\ UNCHANGED <<backend, now, lastGet>>
  /\ UNCHANGED nonStore

(* getConnection(connectionId) *)
getConnection(c) ==
  /\ lastGet' = [connectionId |-> c,
                 result |-> GetResult(backend, store, c, now),
                 expired |-> (store[c] # None /\ IsExpired(Val(store[c]), now)),
                 purged |-> (GetEffect(backend, store, c, now)[c] = None)]
  /\ store' = GetEffect(backend, store, c, now)
  /\ lastOp' = "get"
  /\ UNCHANGED <<backend, now>>
  /\ UNCHANGED nonStore

(* deleteConnection(connectionId) *)
deleteConnection(c) ==
  /\ store' = StoreRemove(store, c)
  /\ lastOp' = "delete"
  /\ UNCHANGED <<backend, now, lastGet>>
  /\ UNCHANGED nonStore

(* handleDisconnect: try { await deleteConnection(connectionId) } catch { log }; *)
(* return success() either way. Only the DeleteCommand can reject, and then the *)
(* item stays                                                                    *)
handleDisconnect(c, rejected) ==
  /\ rejected => backend = "dynamodb"
  /\ store' = IF rejected THEN store ELSE StoreRemove(store, c)
  /\ dcOut' = Some([connectionId |-> c, statusCode |-> 200, raised |-> FALSE,
                    deleted |-> ~rejected, existed |-> store[c] # None])
  /\ lastOp' = "disconnect"
  /\ UNCHANGED <<backend, now, lastGet>>
  /\ UNCHANGED <<tokenVars, gateVars, wsVars, httpVars>>

(* the setInterval(cleanupExpiredConnections, 60000) callback *)
cleanupExpiredConnections ==
  /\ backend = "memory"
  /\ store' = SweepResult(store, now)
  /\ lastOp' = "sweep"
  /\ UNCHANGED <<backend, now, lastGet>>
  /\ UNCHANGED nonStore

(* DynamoDB's own TTL process: deletes an expired item at some later time *)
DynamoTtlDelete(c) ==
  /\ backend = "dynamodb"
  /\ store[c] # None
  /\ IsExpired(Val(store[c]), now)
  /\ store' = StoreRemove(store, c)
  /\ lastOp' = "ttl"
  /\ UNCHANGED <<backend, now, lastGet>>
  /\ UNCHANGED nonStore

(* the clock advances *)
Tick ==
  /\ now < MaxTime
  /\ now' = now + 1
  /\ lastOp' = "tick"
  /\ UNCHANGED <<backend, store, lastGet>>
  /\ UNCHANGED nonStore

StoreNext ==
  \/ \E c \in ConnIds, ctx \in {None} \cup {Some(x) : x \in Contexts}, sid \in SessionIds :
       saveConnection(c, ctx, sid)
  \/ \E c \in ConnIds : getConnection(c)
  \/ \E c \in ConnIds : deleteConnection(c)
  \/ cleanupExpiredConnections
  \/ \E c \in ConnIds : DynamoTtlDelete(c)
  \/ Tick

StoreSpec == StoreInit /\ [][StoreNext]_vars

DisconnectNext ==
  \/ \E c \in ConnIds, ctx \in {None} \cup {Some(x) : x \in Contexts}, sid \in SessionIds :
       saveConnection(c, ctx, sid)
  \/ \E c \in ConnIds : deleteConnection(c)
  \/ \E c \in ConnIds, rejected \in BOOLEAN : handleDisconnect(c, rejected)

(* the $disconnect route against either store: records are saved, deleted and *)
(* disconnected in any order, any number of times                              *)
DisconnectSpec == StoreInit /\ [][DisconnectNext]_vars

----------------------------------------------------------------------------
(* Transient token service (jsonwebtoken) *)

Secret == "k1"              \* CLIENT_AUTH_SECRET
ForeignSecret == "k2"       \* any other signing key
TokenTTLs == {1, 2}         \* expiresIn values, in clock ticks
FarFuture == 99

HasField(p, f) == f \in DOMAIN p

(* ShareableContexts handed to generate: the backend's contexts, and contexts *)
(* whose free-form extension fields happen to be named iat or exp             *)
TokenPayloads ==
  Contexts \cup {MkContext("SHARE1") @@ [iat |-> 1], MkContext("SHARE1") @@ [exp |-> FarFuture]}

MalformedToken == [wellFormed |-> FALSE, payload |-> <<>>, sig |-> ""]
ForgedToken ==
  [wellFormed |-> TRUE, payload |-> MkContext("SHARE1") @@ [iat |-> 0, exp |-> FarFuture],
   sig |-> ForeignSecret]

M_jwtSign_LongerExp(payload, secret, expiresIn, t) ==
  IF HasField(payload, "exp")
  THEN [kind |-> "throw", value |-> None]
  ELSE [kind |-> "value",
        value |-> Some([wellFormed |-> TRUE,
                        payload |-> [f \in DOMAIN payload \cup {"iat", "exp"} |->
                                       IF f = "iat" THEN t
                                       ELSE IF f = "exp" THEN t + expiresIn + 1
                                       ELSE payload[f]],
                        sig |-> secret])]

(* jwt.sign(payload, secret, { expiresIn }): copies the payload, stamps iat   *)
(* (payload.iat || now) and exp = iat + expiresIn; refuses a payload that      *)
(* already has exp                                                             *)
jwtSign(payload, secret, expiresIn, t) ==
  IF HasField(payload, "exp")
  THEN [kind |-> "throw", value |-> None]
  ELSE LET timestamp == IF HasField(payload, "iat") /\ payload.iat # 0 THEN payload.iat ELSE t
       IN [kind |-> "value",
           value |-> Some([wellFormed |-> TRUE,
                           payload |-> [f \in DOMAIN payload \cup {"iat", "exp"} |->
                                          IF f = "iat" THEN timestamp
                                          ELSE IF f = "exp" THEN timestamp + expiresIn
                                          ELSE payload[f]],
                           sig |-> secret])]

(* jwt.verify(token, secret): the decoded payload, or a thrown error for a     *)
(* malformed token, a signature mismatch, or clockTimestamp >= payload.exp     *)
jwtVerify(token, secret, t) ==
  IF ~token.wellFormed THEN [kind |-> "throw", value |-> None]
  ELSE IF token.sig # secret THEN [kind |-> "throw", value |-> None]
  ELSE IF HasField(token.payload, "exp") /\ t >= token.payload.exp
       THEN [kind |-> "throw", value |-> None]
  ELSE [kind |-> "value", value |-> Some(token.payload)]

(* generate: jwt.sign(payload, secret, { expiresIn }) *)
generate(payload, expiresIn, t) == jwtSign(payload, Secret, expiresIn, t)

M_verify_ExpiredThrows(token, t) ==
  LET decoded == jwtVerify(token, Secret, t)
  IN IF decoded.kind = "value" THEN decoded
     ELSE IF token.wellFormed /\ token.sig = Secret THEN [kind |-> "throw", value |-> None]
     ELSE [kind |-> "null", value |-> None]

(* verify of CreateTransientTokenService(secret, defaultTransientTTL):         *)
(* catch -> log -> return null                                                 *)
verify(token, t) ==
  LET decoded == jwtVerify(token, Secret, t)
  IN IF decoded.kind = "value" THEN decoded ELSE [kind |-> "null", value |-> None]

(* verify of CreateTransientTokenService(secret) in services/transient-token.ts: *)
(* catch -> log -> throw new Error('Invalid or expired token')                 *)
verifyThrowing(token, t) ==
  LET decoded == jwtVerify(token, Secret, t)
  IN IF decoded.kind = "value" THEN decoded ELSE [kind |-> "throw", value |-> None]

tokenService_verify(impl, token, t) ==
  IF impl = "null" THEN verify(token, t) ELSE verifyThrowing(token, t)

TokenInit ==
  /\ StoreStart /\ GateIdle /\ WsIdle /\ HttpIdle
  /\ tkImpl \in {"null", "throw"}
  /\ tkPayload \in TokenPayloads
  /\ tkTtl = 0
  /\ tkToken = None
  /\ tkOrigin = "none"
  /\ tkIssued = 0
  /\ tkOut = NoOut

(* tokenService.generate(payload, expiresIn) *)
Generate(p, ttl) ==
  /\ tkPayload' = p
  /\ tkTtl' = ttl
  /\ tkIssued' = now
  /\ tkToken' = generate(p, ttl, now).value
  /\ tkOrigin' = IF generate(p, ttl, now).kind = "value" THEN "generate" ELSE "none"
  /\ tkOut' = [kind |-> IF generate(p, ttl, now).kind = "value" THEN "token" ELSE "throw",
               value |-> None]
  /\ lastOp' = "generate"
  /\ UNCHANGED <<tkImpl, storeVars, gateVars, wsVars, httpVars, dcOut>>

(* a client presents a token the service did not issue *)
PresentToken(origin) ==
  /\ tkToken' = Some(IF origin = "malformed" THEN MalformedToken ELSE ForgedToken)
  /\ tkOrigin' = origin
  /\ lastOp' = "present"
  /\ UNCHANGED <<tkImpl, tkPayload, tkTtl, tkIssued, tkOut, storeVars, gateVars, wsVars, httpVars, dcOut>>

(* tokenService.verify(token) *)
Verify ==
  /\ tkToken # None
  /\ tkOut' = tokenService_verify(tkImpl, Val(tkToken), now)
  /\ lastOp' = "verify"
  /\ UNCHANGED <<tkImpl, tkPayload, tkTtl, tkToken, tkOrigin, tkIssued, storeVars, gateVars, wsVars, httpVars, dcOut>>

TokenNext ==
  \/ \E p \in TokenPayloads, ttl \in TokenTTLs : Generate(p, ttl)
  \/ \E origin \in {"malformed", "forged"} : PresentToken(origin)
  \/ Verify
  \/ Tick

TokenSpec == TokenInit /\ [][TokenNext]_vars

C10_VerifyReturnsNull ==
  lastOp = "verify" =>
    /\ tkOut.kind # "throw"
    /\ (tkOrigin \in {"malformed", "forged"} => tkOut.kind = "null")
    /\ (tkOrigin = "generate" /\ now - tkIssued > tkTtl => tkOut.kind = "null")

----------------------------------------------------------------------------
(* WebSocket auth gate *)

NotAuthenticatedMessage == "Connection not authenticated. Please send authenticate command first."

M_requireAuthentication_FlagOnly(connection, command) ==
  IF ~connection.authenticated
  THEN Some(HttpCodedError(401, NotAuthenticatedMessage, TRUE))
  ELSE None

(* requireAuthentication(connection, command): what it throws, if anything *)
requireAuthentication(connection, command) ==
  IF ~connection.authenticated \/ ~IsSome(connection.shareableContext)
  THEN Some(HttpCodedError(401, NotAuthenticatedMessage, TRUE))
  ELSE None

GateRecords ==
  {[connectionId |-> c, authenticated |-> a, shareableContext |-> ctx,
    sessionId |-> sid, connectedAt |-> 0, ttl |-> ConnTTL] :
      c \in ConnIds, a \in BOOLEAN,
      ctx \in {None} \cup {Some(x) : x \in Contexts}, sid \in SessionIds}

GateInit ==
  /\ StoreStart /\ TokenIdle /\ WsIdle /\ HttpIdle
  /\ gtRecord \in GateRecords
  /\ gtCommand \in messageRoutingMap \ {AuthenticateCmd}
  /\ gtOut = [ran |-> FALSE, raised |-> None]

(* the call requireAuthentication(connection, command) *)
GateCheck ==
  /\ ~gtOut.ran
  /\ gtOut' = [ran |-> TRUE, raised |-> requireAuthentication(gtRecord, gtCommand)]
  /\ lastOp' = "gate"
  /\ UNCHANGED <<gtRecord, gtCommand, storeVars, tokenVars, wsVars, httpVars, dcOut>>

GateNext == GateCheck

GateSpec == GateInit /\ [][GateNext]_vars

----------------------------------------------------------------------------
(* WebSocket frames and their normalisation *)

MaxFrames == 2                 \* frames a connection sends
WsConns == {"c1"}              \* connections of the lifecycle specification
DefaultTransientTTL == 2       \* DEFAULT_CLIENT_AUTH_TTL ('10m'), in clock ticks

(* an inbound frame after safeJson: command, token, sessionId and message,     *)
(* each possibly absent                                                        *)
MkFrame(command, token, sessionId, message) ==
  [command |-> command, token |-> token, sessionId |-> sessionId, message |-> message,
   isNull |-> FALSE]

(* the value JSON.parse gives for the text null: reading a property of it throws *)
NullValue ==
  [command |-> None, token |-> None, sessionId |-> None, message |-> None, isNull |-> TRUE]

(* frame texts that are not a JSON object: the empty text, malformed JSON, a  *)
(* JSON array, a JSON string and the JSON text null                           *)
FrameTexts == {"", "{oops", "[1]", "\"x\"", "null"}

(* safeJson(body): {} for an empty body and when JSON.parse throws, otherwise *)
(* whatever JSON.parse returns; an array or a string has no command property  *)
safeJson(body) ==
  IF body = "null" THEN NullValue ELSE MkFrame(None, None, None, None)

WsFrames ==
  { MkFrame(Some(<<"authenticate">>), Some("SHARE1"), Some("s1"), None),
    MkFrame(Some(<<"authenticate">>), Some("BAD"), None, None),
    MkFrame(Some(<<"webchat", "send">>), None, Some("s1"), Some("hello")),
    MkFrame(Some(<<"resource", "get">>), Some("SHARE1"), None, None),
    MkFrame(Some(<<"foo">>), None, None, None),
    MkFrame(None, None, None, None) }

(* the frames of the routing specification: registered commands, an unknown   *)
(* one, and commands that differ from a registered one only after a ':' or     *)
(* that name an inherited key                                                  *)
RouteFrames ==
  { MkFrame(Some(<<"authenticate">>), Some("SHARE1"), Some("s1"), None),
    MkFrame(Some(<<"authenticate">>), Some("BAD"), None, None),
    MkFrame(Some(<<"authenticate">>), None, Some("s1"), None),
    MkFrame(Some(<<"webchat", "send">>), None, Some("s1"), Some("hello")),
    MkFrame(Some(<<"foo">>), None, None, None),
    MkFrame(Some(<<"authenticate", "">>), Some("SHARE1"), Some("s1"), None),
    MkFrame(Some(<<"webchat", "send", "extra">>), None, Some("s1"), Some("hello")),
    MkFrame(Some(<<"__proto__">>), None, None, None),
    MkFrame(Some(<<"constructor">>), None, None, None) }

(* the frames of the delivery specification *)
DeliveryFrames ==
  { MkFrame(Some(<<"authenticate">>), Some("SHARE1"), Some("s1"), None),
    MkFrame(Some(<<"webchat", "send">>), None, Some("s1"), Some("hello")) }

(* the frames of the parsing specification: every text that is not a JSON     *)
(* object, after safeJson, next to an authenticate, a business and an unknown  *)
(* command                                                                     *)
ParseFrames ==
  {safeJson(body) : body \in FrameTexts} \cup
  { MkFrame(Some(<<"authenticate">>), Some("SHARE1"), Some("s1"), None),
    MkFrame(Some(<<"webchat", "send">>), None, Some("s1"), Some("hello")),
    MkFrame(Some(<<"foo">>), None, None, None) }

(* rawCommand = message.command || ''; rawCommand.split(':') *)
RawSegments(frame) == IF frame.command = None THEN <<"">> ELSE Val(frame.command)

(* const [resource, action] = rawCommand.split(':') *)
Resource(frame) == RawSegments(frame)[1]
Action(frame) == IF Len(RawSegments(frame)) >= 2 THEN Some(RawSegments(frame)[2]) ELSE None

(* const command = action ? `${resource}:${action}` : resource *)
CommandKey(frame) ==
  IF Action(frame) # None /\ Val(Action(frame)) # ""
  THEN <<Resource(frame), Val(Action(frame))>>
  ELSE <<Resource(frame)>>

(* parsed.command || 'unknown', in the catch block *)
ErrorCommand(frame) ==
  IF frame.command = None \/ Val(frame.command) = <<"">> THEN <<"unknown">> ELSE Val(frame.command)

(* { command, ...wsSuccess(result, statusCode) } *)
wsSuccess(command, result, statusCode) ==
  [command |-> command, success |-> TRUE, statusCode |-> statusCode, message |-> "Ok",
   result |-> Some(result)]

(* { command, ...wsFailure(message, statusCode) } *)
wsFailure(command, message, statusCode) ==
  [command |-> command, success |-> FALSE, statusCode |-> statusCode, message |-> message,
   result |-> None]

M_GateApplies_ExemptsWebchat(command) == command[1] \notin {"authenticate", "webchat"}

(* if (command !== 'authenticate') requireAuthentication(connection, command) *)
GateApplies(command) == command # AuthenticateCmd

(* the catch block of handleMessage: the frame pushed for a thrown value, and  *)
(* whether the connection is disconnected afterwards. The block reads          *)
(* parsed.command before it sends: on a null parse that read throws inside the *)
(* inner try, whose catch only logs, so nothing is sent and nothing is closed   *)
Caught(task, err) ==
  IF task.frame.isNull
  THEN [task EXCEPT !.pc = "send", !.err = Some(err), !.resp = None, !.close = FALSE]
  ELSE [task EXCEPT
          !.pc = "send",
          !.err = Some(err),
          !.resp = Some(IF err.coded
                        THEN wsFailure(ErrorCommand(task.frame), err.message, err.statusCode)
                        ELSE wsFailure(ErrorCommand(task.frame), "Internal server error", 500)),
          !.close = (err.coded /\ err.shouldClose)]

(* the validation a handler does before its backend call: the coded error it throws, if any *)
HandlerRejects(command, frame) ==
  IF command \in {AuthenticateCmd, <<"resource", "get">>} /\ frame.token = None
    THEN Some(HttpCodedError(400, "Token is required", FALSE))
  ELSE IF command = <<"webchat", "send">> /\ frame.message = None
    THEN Some(HttpCodedError(400, "message is required", FALSE))
  ELSE IF command = <<"webchat", "get-history">> /\ frame.sessionId = None
    THEN Some(HttpCodedError(400, "session id is required", FALSE))
  ELSE None

M_BackendCall_FrameToken(command, frame, shareableContext) ==
  IF command \in {AuthenticateCmd, <<"resource", "get">>}
  THEN [fn |-> "getConfiguration", sessionId |-> None, message |-> None, payload |-> None,
        shareableToken |-> Val(frame.token)]
  ELSE [fn |-> IF command = <<"webchat", "send">> THEN "sendWebchatMessage"
               ELSE IF command = <<"webchat", "get-history">> THEN "getWebchatHistory"
               ELSE IF command = <<"upload", "get-link">> THEN "getPresignedUploadUrl"
               ELSE "confirmFileUpload",
        sessionId |-> frame.sessionId,
        message |-> frame.message,
        payload |-> IF command = <<"webchat", "send">>
                    THEN Some([token |-> frame.token, message |-> frame.message])
                    ELSE None,
        shareableToken |-> IF frame.token = None THEN "" ELSE Val(frame.token)]

(* the backend call a handler makes: coreApi function, its arguments, and the  *)
(* x-shareable-token it sends                                                  *)
BackendCall(command, frame, shareableContext) ==
  IF command \in {AuthenticateCmd, <<"resource", "get">>}
  THEN [fn |-> "getConfiguration", sessionId |-> None, message |-> None, payload |-> None,
        shareableToken |-> Val(frame.token)]
  ELSE [fn |-> IF command = <<"webchat", "send">> THEN "sendWebchatMessage"
               ELSE IF command = <<"webchat", "get-history">> THEN "getWebchatHistory"
               ELSE IF command = <<"upload", "get-link">> THEN "getPresignedUploadUrl"
               ELSE "confirmFileUpload",
        sessionId |-> frame.sessionId,
        message |-> frame.message,
        payload |-> IF command = <<"webchat", "send">>
                    THEN Some([token |-> frame.token, message |-> frame.message])
                    ELSE None,
        shareableToken |-> Val(shareableContext).token]

(* const handler = messageRoutingMap[command]: the handler of an own key, the *)
(* inherited value of an inherited key, undefined otherwise                   *)
RoutingLookup(command) ==
  IF command \in messageRoutingMap THEN "handler"
  ELSE IF Len(command) = 1 /\ command[1] \in InheritedKeys THEN "inherited"
  ELSE "none"

M_NotFoundReply_Closes(task) ==
  [task EXCEPT !.pc = "send", !.close = TRUE,
               !.resp = Some(wsFailure(<<"">>, "Connection not found", 404))]

(* if (!connection): send 'Connection not found' under command '' and return *)
NotFoundReply(task) ==
  [task EXCEPT !.pc = "send",
               !.resp = Some(wsFailure(<<"">>, "Connection not found", 404))]

(* handleMessage from the resolved getConnection up to its next await *)
Dispatch(task, connection) ==
  LET command == CommandKey(task.frame)
      gate == IF GateApplies(command) THEN "passed" ELSE "exempt"
      t == [task EXCEPT !.conn = connection, !.read = TRUE] IN
  IF connection = None
    THEN NotFoundReply(t)
  ELSE IF task.frame.isNull
    THEN \* parsed.command on null: a TypeError
         Caught(t, PlainError("TypeError"))
  ELSE IF RoutingLookup(command) = "none"
    THEN [t EXCEPT !.pc = "send",
                   !.resp = Some(wsFailure(command, "Unknown command", 400))]
  ELSE IF GateApplies(command) /\ requireAuthentication(Val(connection), command) # None
    THEN Caught([t EXCEPT !.gate = "rejected"], Val(requireAuthentication(Val(connection), command)))
  ELSE IF RoutingLookup(command) = "inherited" /\ command = <<"__proto__">>
    THEN \* await handler(requestEvent) on Object.prototype: handler is not a function
         Caught([t EXCEPT !.gate = gate], PlainError("TypeError"))
  ELSE IF RoutingLookup(command) = "inherited"
    THEN \* Object(requestEvent) returns its argument: no result, no statusCode
         [t EXCEPT !.gate = gate, !.pc = "send",
                   !.resp = Some([command |-> command, success |-> TRUE, statusCode |-> 200,
                                  message |-> "Ok", result |-> None])]
  ELSE IF HandlerRejects(command, task.frame) # None
    THEN Caught([t EXCEPT !.gate = gate, !.handler = TRUE],
                Val(HandlerRejects(command, task.frame)))
  ELSE IF command \in BusinessCommands /\ Val(connection).shareableContext = None
    THEN \* event.shareableContext.token on undefined: a TypeError
         Caught([t EXCEPT !.gate = gate, !.handler = TRUE], PlainError("TypeError"))
  ELSE [t EXCEPT !.pc = "backend", !.gate = gate, !.handler = TRUE,
                 !.call = Some(BackendCall(command, task.frame, Val(connection).shareableContext))]

NewTask(frame, authed) ==
  [frame |-> frame, pc |-> "get", read |-> FALSE, conn |-> None, gate |-> "none",
   handler |-> FALSE, call |-> None, shareable |-> None, resp |-> None, close |-> FALSE,
   saved |-> FALSE, arrivedAuthed |-> authed, err |-> None, answer |-> None,
   pushFailed |-> FALSE]

(* what the backend answers to a call: a value, nothing, a coded error mapped *)
(* by the http client, or any other thrown error                              *)
BackendOutcomes(call) ==
  IF call.fn = "getConfiguration"
  THEN IF call.shareableToken \in ShareTokens THEN {"value", "error"} ELSE {"undefined", "coded"}
  ELSE {"value", "coded"}

SetTask(c, i, t) == [tasks EXCEPT ![c][i] = t]

(* handleMessage returns: its locals are gone, what it did remains *)
Finished(task) ==
  [task EXCEPT !.pc = "done", !.conn = None, !.call = None, !.shareable = None, !.resp = None,
               !.err = None, !.answer = None, !.pushFailed = FALSE]

WsInit ==
  /\ StoreStart /\ TokenIdle /\ GateIdle /\ WsIdle /\ HttpIdle

(* wss.on('connection'): registerConnection, then void saveConnection(connectionId) *)
Connect(c) ==
  /\ sock[c] = "idle"
  /\ sock' = [sock EXCEPT ![c] = "open"]
  /\ registered' = [registered EXCEPT ![c] = TRUE]
  /\ IF backend = "memory"
     THEN /\ store' = StorePut(store, c, None, None, now)
          /\ connectSave' = [connectSave EXCEPT ![c] = "done"]
     ELSE /\ store' = store
          /\ connectSave' = [connectSave EXCEPT ![c] = "pending"]
  /\ UNCHANGED lastOp
  /\ UNCHANGED <<backend, now, lastGet, disconnectDel, tasks, outbox, sentAuth, authOk>>
  /\ UNCHANGED <<tokenVars, gateVars, httpVars, dcOut>>

M_ConnectSaveDone_Retried(c) ==
  /\ connectSave[c] \in {"pending", "done"}
  /\ backend = "dynamodb"
  /\ store' = StorePut(store, c, None, None, now)
  /\ connectSave' = [connectSave EXCEPT ![c] = "done"]
  /\ UNCHANGED lastOp
  /\ UNCHANGED <<backend, now, lastGet, sock, registered, disconnectDel, tasks, outbox, sentAuth, authOk>>
  /\ UNCHANGED <<tokenVars, gateVars, httpVars, dcOut>>

(* the connect-time PutCommand takes effect (a rejected one never does: its  *)
(* .catch only logs)                                                          *)
ConnectSaveDone(c) ==
  /\ connectSave[c] = "pending"
  /\ store' = StorePut(store, c, None, None, now)
  /\ connectSave' = [connectSave EXCEPT ![c] = "done"]
  /\ UNCHANGED lastOp
  /\ UNCHANGED <<backend, now, lastGet, sock, registered, disconnectDel, tasks, outbox, sentAuth, authOk>>
  /\ UNCHANGED <<tokenVars, gateVars, httpVars, dcOut>>

(* ws.on('message'): void handleMessage(ws, connectionId, message) *)
FrameArrives(c, f) ==
  /\ sock[c] = "open"
  /\ Len(tasks[c]) < MaxFrames
  /\ tasks' = [tasks EXCEPT ![c] = Append(@, NewTask(f, authOk[c]))]
  /\ sentAuth' = [sentAuth EXCEPT ![c] = @ \/ CommandKey(f) = AuthenticateCmd]
  /\ UNCHANGED lastOp
  /\ UNCHANGED <<storeVars, sock, registered, connectSave, disconnectDel, outbox, authOk>>
  /\ UNCHANGED <<tokenVars, gateVars, httpVars, dcOut>>

(* handleMessage: await connectionManager.getConnection(connectionId), then   *)
(* parse, look up, gate and start the handler                                 *)
GetConn(c, i) ==
  /\ i \in DOMAIN tasks[c]
  /\ tasks[c][i].pc = "get"
  /\ store' = GetEffect(backend, store, c, now)
  /\ tasks' = SetTask(c, i, Dispatch(tasks[c][i], GetResult(backend, store, c, now)))
  /\ UNCHANGED lastOp
  /\ UNCHANGED <<backend, now, lastGet, sock, registered, connectSave, disconnectDel, outbox,
                 sentAuth, authOk>>
  /\ UNCHANGED <<tokenVars, gateVars, httpVars, dcOut>>

(* the GetCommand rejects: caught as an unclassified error *)
GetConnFail(c, i) ==
  /\ backend = "dynamodb"
  /\ i \in DOMAIN tasks[c]
  /\ tasks[c][i].pc = "get"
  /\ tasks' = SetTask(c, i, Caught(tasks[c][i], PlainError("GetCommand failed")))
  /\ UNCHANGED lastOp
  /\ UNCHANGED <<storeVars, sock, registered, connectSave, disconnectDel, outbox, sentAuth, authOk>>
  /\ UNCHANGED <<tokenVars, gateVars, httpVars, dcOut>>

(* the handler resumes after its backend call *)
HandlerResume(task, outcome) ==
  LET command == CommandKey(task.frame)
      call == Val(task.call) IN
  IF outcome = "error" THEN Caught(task, PlainError("backend"))
  ELSE IF outcome = "coded"
    THEN Caught(task, IF call.fn = "getConfiguration"
                      THEN HttpCodedError(400, "Invalid or expired token", FALSE)
                      ELSE HttpCodedError(503, "Service temporarily unavailable", FALSE))
  ELSE IF outcome = "undefined"
    THEN Caught(task, HttpCodedError(400, "Invalid or expired resource", FALSE))
  ELSE IF command = AuthenticateCmd
    THEN [task EXCEPT !.pc = "save", !.shareable = Some(MkContext(call.shareableToken))]
  ELSE IF command = <<"resource", "get">>
    THEN [task EXCEPT
            !.pc = "send",
            !.resp = Some(wsSuccess(command,
                            [config |-> MkContext(call.shareableToken),
                             authToken |-> generate(MkContext(call.shareableToken),
                                                    DefaultTransientTTL, now).value],
                            200))]
  ELSE [task EXCEPT !.pc = "send", !.resp = Some(wsSuccess(command, [echo |-> call], 200))]

BackendReturn(c, i, outcome) ==
  /\ i \in DOMAIN tasks[c]
  /\ tasks[c][i].pc = "backend"
  /\ outcome \in BackendOutcomes(Val(tasks[c][i].call))
  /\ tasks' = SetTask(c, i, HandlerResume([tasks[c][i] EXCEPT !.answer = Some(outcome)], outcome))
  /\ UNCHANGED lastOp
  /\ UNCHANGED <<storeVars, sock, registered, connectSave, disconnectDel, outbox, sentAuth, authOk>>
  /\ UNCHANGED <<tokenVars, gateVars, httpVars, dcOut>>

M_AuthResult_Unauthenticated(shareable) == [authenticated |-> FALSE, config |-> shareable]

(* what authModule.authenticate returns *)
AuthResult(shareable) == [authenticated |-> TRUE, config |-> shareable]

M_AuthSave_KeepsFirstContext(c, i) ==
  /\ i \in DOMAIN tasks[c]
  /\ tasks[c][i].pc = "save"
  /\ store' = IF store[c] # None /\ Val(store[c]).authenticated
              THEN store
              ELSE StorePut(store, c, tasks[c][i].shareable, tasks[c][i].frame.sessionId, now)
  /\ authOk' = [authOk EXCEPT ![c] = TRUE]
  /\ tasks' = SetTask(c, i, [tasks[c][i] EXCEPT
                 !.pc = "send",
                 !.saved = TRUE,
                 !.resp = Some(wsSuccess(AuthenticateCmd, AuthResult(Val(tasks[c][i].shareable)), 200))])
  /\ UNCHANGED lastOp
  /\ UNCHANGED <<backend, now, lastGet, sock, registered, connectSave, disconnectDel, outbox, sentAuth>>
  /\ UNCHANGED <<tokenVars, gateVars, httpVars, dcOut>>

(* authenticate: await saveConnection(connectionId, shareable, sessionId); return *)
AuthSave(c, i) ==
  /\ i \in DOMAIN tasks[c]
  /\ tasks[c][i].pc = "save"
  /\ store' = StorePut(store, c, tasks[c][i].shareable, tasks[c][i].frame.sessionId, now)
  /\ authOk' = [authOk EXCEPT ![c] = TRUE]
  /\ tasks' = SetTask(c, i, [tasks[c][i] EXCEPT
                 !.pc = "send",
                 !.saved = TRUE,
                 !.resp = Some(wsSuccess(AuthenticateCmd, AuthResult(Val(tasks[c][i].shareable)), 200))])
  /\ UNCHANGED lastOp
  /\ UNCHANGED <<backend, now, lastGet, sock, registered, connectSave, disconnectDel, outbox, sentAuth>>
  /\ UNCHANGED <<tokenVars, gateVars, httpVars, dcOut>>

M_AuthSaveFail_Unauthenticates(c, i) ==
  /\ backend = "dynamodb"
  /\ i \in DOMAIN tasks[c]
  /\ tasks[c][i].pc = "save"
  /\ store' = StorePut(store, c, None, None, now)
  /\ tasks' = SetTask(c, i, Caught(tasks[c][i],
                 HttpCodedError(500, "Failed to authenticate connection", FALSE)))
  /\ UNCHANGED lastOp
  /\ UNCHANGED <<backend, now, lastGet, sock, registered, connectSave, disconnectDel, outbox,
                 sentAuth, authOk>>
  /\ UNCHANGED <<tokenVars, gateVars, httpVars, dcOut>>

(* authenticate: the PutCommand rejects -> 500 'Failed to authenticate connection' *)
AuthSaveFail(c, i) ==
  /\ backend = "dynamodb"
  /\ i \in DOMAIN tasks[c]
  /\ tasks[c][i].pc = "save"
  /\ tasks' = SetTask(c, i, Caught(tasks[c][i],
                 HttpCodedError(500, "Failed to authenticate connection", FALSE)))
  /\ UNCHANGED lastOp
  /\ UNCHANGED <<storeVars, sock, registered, connectSave, disconnectDel, outbox, sentAuth, authOk>>
  /\ UNCHANGED <<tokenVars, gateVars, httpVars, dcOut>>

(* websocketClientNative.sendToConnection: pushes the frame if the socket is  *)
(* registered and OPEN, otherwise returns false                                *)
Send(c, i) ==
  /\ i \in DOMAIN tasks[c]
  /\ tasks[c][i].pc = "send"
  /\ outbox' = IF registered[c] /\ sock[c] = "open" /\ tasks[c][i].resp # None
               THEN [outbox EXCEPT ![c] = Append(@, Val(tasks[c][i].resp))]
               ELSE outbox
  /\ tasks' = SetTask(c, i, IF tasks[c][i].close
                              THEN [tasks[c][i] EXCEPT !.pc = "close"]
                              ELSE Finished(tasks[c][i]))
  /\ UNCHANGED lastOp
  /\ UNCHANGED <<storeVars, sock, registered, connectSave, disconnectDel, sentAuth, authOk>>
  /\ UNCHANGED <<tokenVars, gateVars, httpVars, dcOut>>

(* websocketClientNative.disconnect: ws.close(1000) and connections.delete *)
Disconnect(c, i) ==
  /\ i \in DOMAIN tasks[c]
  /\ tasks[c][i].pc = "close"
  /\ sock' = IF registered[c] /\ sock[c] = "open" THEN [sock EXCEPT ![c] = "closing"] ELSE sock
  /\ registered' = [registered EXCEPT ![c] = FALSE]
  /\ tasks' = SetTask(c, i, Finished(tasks[c][i]))
  /\ UNCHANGED lastOp
  /\ UNCHANGED <<storeVars, connectSave, disconnectDel, outbox, sentAuth, authOk>>
  /\ UNCHANGED <<tokenVars, gateVars, httpVars, dcOut>>

(* ws.on('close'): unregisterConnection, then void deleteConnection(connectionId) *)
OnClose(c) ==
  /\ sock[c] \in {"open", "closing"}
  /\ sock' = [sock EXCEPT ![c] = "closed"]
  /\ registered' = [registered EXCEPT ![c] = FALSE]
  /\ IF backend = "memory"
     THEN /\ store' = StoreRemove(store, c)
          /\ disconnectDel' = [disconnectDel EXCEPT ![c] = "done"]
     ELSE /\ store' = store
          /\ disconnectDel' = [disconnectDel EXCEPT ![c] = "pending"]
  /\ UNCHANGED lastOp
  /\ UNCHANGED <<backend, now, lastGet, connectSave, tasks, outbox, sentAuth, authOk>>
  /\ UNCHANGED <<tokenVars, gateVars, httpVars, dcOut>>

(* the close-time DeleteCommand takes effect (a rejected one never does: its *)
(* .catch only logs)                                                          *)
DisconnectDeleteDone(c) ==
  /\ disconnectDel[c] = "pending"
  /\ store' = StoreRemove(store, c)
  /\ disconnectDel' = [disconnectDel EXCEPT ![c] = "done"]
  /\ UNCHANGED lastOp
  /\ UNCHANGED <<backend, now, lastGet, sock, registered, connectSave, tasks, outbox, sentAuth, authOk>>
  /\ UNCHANGED <<tokenVars, gateVars, httpVars, dcOut>>

Next ==
  \/ \E c \in WsConns : Connect(c)
  \/ \E c \in WsConns : ConnectSaveDone(c)
  \/ \E c \in WsConns, f \in WsFrames : FrameArrives(c, f)
  \/ \E c \in WsConns, i \in 1..MaxFrames : GetConn(c, i)
  \/ \E c \in WsConns, i \in 1..MaxFrames : GetConnFail(c, i)
  \/ \E c \in WsConns, i \in 1..MaxFrames, o \in {"value", "undefined", "coded", "error"} :
       BackendReturn(c, i, o)
  \/ \E c \in WsConns, i \in 1..MaxFrames : AuthSave(c, i)
  \/ \E c \in WsConns, i \in 1..MaxFrames : AuthSaveFail(c, i)
  \/ \E c \in WsConns, i \in 1..MaxFrames : Send(c, i)
  \/ \E c \in WsConns, i \in 1..MaxFrames : Disconnect(c, i)
  \/ \E c \in WsConns : OnClose(c)
  \/ \E c \in WsConns : DisconnectDeleteDone(c)

(* the server under concurrent frames; the clock stands still, so no record   *)
(* expires here (expiry is exercised by StoreSpec and SessionSpec)             *)
Spec == WsInit /\ [][Next]_vars

(* a client that waits for each response before it sends its next frame *)
NextFrameArrives(c, f) ==
  /\ \A i \in DOMAIN tasks[c] : tasks[c][i].pc = "done"
  /\ FrameArrives(c, f)

SessionNext ==
  \/ \E c \in WsConns : Connect(c)
  \/ \E c \in WsConns : ConnectSaveDone(c)
  \/ \E c \in WsConns, f \in WsFrames : NextFrameArrives(c, f)
  \/ \E c \in WsConns, i \in 1..MaxFrames : GetConn(c, i)
  \/ \E c \in WsConns, i \in 1..MaxFrames : GetConnFail(c, i)
  \/ \E c \in WsConns, i \in 1..MaxFrames, o \in {"value", "undefined", "coded", "error"} :
       BackendReturn(c, i, o)
  \/ \E c \in WsConns, i \in 1..MaxFrames : AuthSave(c, i)
  \/ \E c \in WsConns, i \in 1..MaxFrames : AuthSaveFail(c, i)
  \/ \E c \in WsConns, i \in 1..MaxFrames : Send(c, i)
  \/ \E c \in WsConns, i \in 1..MaxFrames : Disconnect(c, i)
  \/ \E c \in WsConns : OnClose(c)
  \/ \E c \in WsConns : DisconnectDeleteDone(c)
  \/ cleanupExpiredConnections
  \/ \E c \in WsConns : DynamoTtlDelete(c)
  \/ Tick

SessionSpec == WsInit /\ [][SessionNext]_vars

(* the connect-time PutCommand rejects: the catch logs the error and nothing  *)
(* else happens                                                                *)
ConnectSaveFail(c) ==
  /\ connectSave[c] = "pending"
  /\ connectSave' = [connectSave EXCEPT ![c] = "failed"]
  /\ UNCHANGED lastOp
  /\ UNCHANGED <<storeVars, sock, registered, disconnectDel, tasks, outbox, sentAuth, authOk>>
  /\ UNCHANGED <<tokenVars, gateVars, httpVars, dcOut>>

RouteNext ==
  \/ \E c \in WsConns : Connect(c)
  \/ \E c \in WsConns : ConnectSaveDone(c)
  \/ \E c \in WsConns : ConnectSaveFail(c)
  \/ \E c \in WsConns, f \in RouteFrames : NextFrameArrives(c, f)
  \/ \E c \in WsConns, i \in 1..MaxFrames : GetConn(c, i)
  \/ \E c \in WsConns, i \in 1..MaxFrames : GetConnFail(c, i)
  \/ \E c \in WsConns, i \in 1..MaxFrames, o \in {"value", "undefined", "coded", "error"} :
       BackendReturn(c, i, o)
  \/ \E c \in WsConns, i \in 1..MaxFrames : AuthSave(c, i)
  \/ \E c \in WsConns, i \in 1..MaxFrames : AuthSaveFail(c, i)
  \/ \E c \in WsConns, i \in 1..MaxFrames : Send(c, i)
  \/ \E c \in WsConns, i \in 1..MaxFrames : Disconnect(c, i)
  \/ \E c \in WsConns : OnClose(c)
  \/ \E c \in WsConns : DisconnectDeleteDone(c)

(* one client that waits for each response, sending any frame of RouteFrames; *)
(* the clock stands still                                                      *)
RouteSpec == WsInit /\ [][RouteNext]_vars

ParseNext ==
  \/ \E c \in WsConns : Connect(c)
  \/ \E c \in WsConns : ConnectSaveDone(c)
  \/ \E c \in WsConns : ConnectSaveFail(c)
  \/ \E c \in WsConns, f \in ParseFrames : NextFrameArrives(c, f)
  \/ \E c \in WsConns, i \in 1..MaxFrames : GetConn(c, i)
  \/ \E c \in WsConns, i \in 1..MaxFrames : GetConnFail(c, i)
  \/ \E c \in WsConns, i \in 1..MaxFrames, o \in {"value", "undefined", "coded", "error"} :
       BackendReturn(c, i, o)
  \/ \E c \in WsConns, i \in 1..MaxFrames : AuthSave(c, i)
  \/ \E c \in WsConns, i \in 1..MaxFrames : AuthSaveFail(c, i)
  \/ \E c \in WsConns, i \in 1..MaxFrames : Send(c, i)
  \/ \E c \in WsConns, i \in 1..MaxFrames : Disconnect(c, i)
  \/ \E c \in WsConns : OnClose(c)
  \/ \E c \in WsConns : DisconnectDeleteDone(c)

(* one client that waits for each response, sending any frame of ParseFrames; *)
(* the clock stands still                                                      *)
ParseSpec == WsInit /\ [][ParseNext]_vars

M_SendFail_Escapes(c, i) ==
  /\ i \in DOMAIN tasks[c]
  /\ tasks[c][i].pc = "send"
  /\ tasks[c][i].resp # None
  /\ tasks' = SetTask(c, i, [tasks[c][i] EXCEPT !.pc = "crashed", !.pushFailed = TRUE])
  /\ UNCHANGED lastOp
  /\ UNCHANGED <<storeVars, sock, registered, connectSave, disconnectDel, outbox, sentAuth, authOk>>
  /\ UNCHANGED <<tokenVars, gateVars, httpVars, dcOut>>

(* websocketClient.sendToConnection rethrows a PostToConnection error other   *)
(* than 410. Thrown in the try body of handleMessage it is caught as an        *)
(* unclassified error; thrown in the catch block it is caught by the inner     *)
(* try, which logs, and handleMessage returns without the disconnect           *)
SendFail(c, i) ==
  /\ i \in DOMAIN tasks[c]
  /\ tasks[c][i].pc = "send"
  /\ tasks[c][i].resp # None
  /\ tasks' = SetTask(c, i,
                IF tasks[c][i].err = None
                THEN [Caught(tasks[c][i], PlainError("PostToConnection")) EXCEPT !.pushFailed = TRUE]
                ELSE Finished(tasks[c][i]))
  /\ UNCHANGED lastOp
  /\ UNCHANGED <<storeVars, sock, registered, connectSave, disconnectDel, outbox, sentAuth, authOk>>
  /\ UNCHANGED <<tokenVars, gateVars, httpVars, dcOut>>

DeliveryNext ==
  \/ \E c \in ConnIds : Connect(c)
  \/ \E c \in ConnIds : ConnectSaveDone(c)
  \/ \E c \in WsConns, f \in DeliveryFrames : NextFrameArrives(c, f)
  \/ \E c \in WsConns, i \in 1..MaxFrames : GetConn(c, i)
  \/ \E c \in WsConns, i \in 1..MaxFrames : GetConnFail(c, i)
  \/ \E c \in WsConns, i \in 1..MaxFrames, o \in {"value", "undefined", "coded", "error"} :
       BackendReturn(c, i, o)
  \/ \E c \in WsConns, i \in 1..MaxFrames : AuthSave(c, i)
  \/ \E c \in WsConns, i \in 1..MaxFrames : AuthSaveFail(c, i)
  \/ \E c \in WsConns, i \in 1..MaxFrames : Send(c, i)
  \/ \E c \in WsConns, i \in 1..MaxFrames : SendFail(c, i)
  \/ \E c \in WsConns, i \in 1..MaxFrames : Disconnect(c, i)
  \/ \E c \in ConnIds : OnClose(c)
  \/ \E c \in ConnIds : DisconnectDeleteDone(c)

(* a connection whose pushes may fail, by a socket that is gone or not open   *)
(* (Send pushes nothing) or by a push that throws (SendFail), next to a second *)
(* connection that connects and disconnects                                    *)
DeliverySpec == WsInit /\ [][DeliveryNext]_vars

(* setupWebSocketServer awaits the connect-time save before it registers the  *)
(* socket and attaches its listeners; when the save rejects, its catch logs   *)
(* and calls ws.close()                                                        *)
SetupSaveFail(c) ==
  /\ connectSave[c] = "pending"
  /\ sock[c] = "open"
  /\ tasks[c] = <<>>
  /\ connectSave' = [connectSave EXCEPT ![c] = "failed"]
  /\ sock' = [sock EXCEPT ![c] = "closing"]
  /\ registered' = [registered EXCEPT ![c] = FALSE]
  /\ UNCHANGED lastOp
  /\ UNCHANGED <<storeVars, disconnectDel, tasks, outbox, sentAuth, authOk>>
  /\ UNCHANGED <<tokenVars, gateVars, httpVars, dcOut>>

ConnectNext ==
  \/ RouteNext
  \/ \E c \in WsConns : SetupSaveFail(c)

(* the routing specification with either server's handling of a rejected      *)
(* connect-time save                                                           *)
ConnectSpec == WsInit /\ [][ConnectNext]_vars

----------------------------------------------------------------------------
(* HTTP transport: the Lambda router, the express routes and the bearer guard *)

(* routingMap: resource -> the 'METHOD:action' keys it has *)
routingMap ==
  [resource |-> {<<"POST", "get">>},
   webchat  |-> {<<"POST", "get-history">>, <<"POST", "send">>},
   upload   |-> {<<"POST", "get-link">>, <<"POST", "confirm">>}]

M_HttpGuarded_UploadOpen(resource, action) == resource = "webchat"

(* the entries wrapped by applyMiddleware(..., [jwtMiddleware]) / routed      *)
(* through jwtExpressMiddleware                                                *)
HttpGuarded(resource, action) == resource \in {"webchat", "upload"}

(* a bearer credential on the wire and the token it decodes to *)
WireTokens == {"good", "malformed", "forged"}
TokenOf(cred) ==
  IF cred = "good" THEN Val(generate(MkContext("SHARE1"), DefaultTransientTTL, 0).value)
  ELSE IF cred = "forged" THEN ForgedToken
  ELSE MalformedToken

(* the headers of a request: "absent", present without Authorization          *)
(* ("empty"), or with an Authorization value ("auth"): its first word and what *)
(* follows the whitespace after it ("" when nothing but whitespace follows)    *)
HeaderValues ==
  {[kind |-> "absent", scheme |-> "", cred |-> ""], [kind |-> "empty", scheme |-> "", cred |-> ""]}
  \cup {[kind |-> "auth", scheme |-> sc, cred |-> cr] :
          sc \in {"Bearer", "bearer", "Basic"}, cr \in WireTokens \cup {""}}

HttpPaths ==
  {<<"resource", "get">>, <<"webchat", "send">>, <<"upload", "confirm">>,
   <<"webchat", "nope">>, <<"nope", "get">>, <<"constructor", "get">>}

HttpRequests ==
  {[transport |-> tr, method |-> m, resource |-> pa[1], action |-> pa[2], headers |-> h] :
     tr \in {"lambda", "express"}, m \in {"POST", "GET"}, pa \in HttpPaths, h \in HeaderValues}

(* /^Bearer\s+(.+)$/i.exec(authHeader), then match[1].trim() *)
BearerMatch(authHeader) ==
  IF authHeader.scheme \in {"Bearer", "bearer"}
  THEN [matched |-> TRUE, token |-> authHeader.cred]
  ELSE [matched |-> FALSE, token |-> ""]

Unauthorized(message) == HttpCodedError(401, message, FALSE)

(* the body of jwtMiddleware / jwtExpressMiddleware up to its outcome: a coded *)
(* error, a thrown non-coded error, or the verified context                    *)
GuardBody(impl, headers, t) ==
  IF headers.kind \in {"absent", "empty"}
    THEN [kind |-> "coded", err |-> Some(Unauthorized("Invalid Authorization")), ctx |-> None]
  ELSE IF ~BearerMatch(headers).matched
    THEN [kind |-> "coded", err |-> Some(Unauthorized("Invalid Authorization format")),
          ctx |-> None]
  ELSE IF BearerMatch(headers).token = ""
    THEN [kind |-> "coded", err |-> Some(Unauthorized("Invalid Authorization")), ctx |-> None]
  ELSE LET v == tokenService_verify(impl, TokenOf(BearerMatch(headers).token), t) IN
       IF v.kind = "throw"
         THEN [kind |-> "thrown", err |-> Some(PlainError("Invalid or expired token")),
               ctx |-> None]
       ELSE IF v.kind = "null"
         THEN [kind |-> "coded", err |-> Some(Unauthorized("Invalid Authorization")),
               ctx |-> None]
       ELSE [kind |-> "next", err |-> None, ctx |-> v.value]

(* jwtMiddleware: catch (err) - a coded error is rethrown, anything else       *)
(* becomes 422 'Can not evaluate authorization'                                *)
jwtMiddleware(impl, headers, t) ==
  LET g == GuardBody(impl, headers, t) IN
  IF g.kind = "thrown"
  THEN [kind |-> "coded",
        err |-> Some(HttpCodedError(422, "Can not evaluate authorization", FALSE)), ctx |-> None]
  ELSE g

(* jwtExpressMiddleware: next(codedError), next(), or the exception of         *)
(* tokenService.verify leaving the middleware                                  *)
jwtExpressMiddleware(impl, headers, t) == GuardBody(impl, headers, t)

(* statusCode of the error response: err.statusCode for a coded error, else 500 *)
ErrorStatus(err) == IF err.coded THEN err.statusCode ELSE 500

NoHandler ==
  [guard |-> None, nextCalls |-> 0, handler |-> None, shareableContext |-> None]

(* the messages of the exceptions a handler can end with that are not coded *)
ExceptionMessages == {"connect ECONNREFUSED 10.0.0.5:5432", "Cannot read properties of undefined"}

(* getErrorMessage(err): the message of an Error *)
getErrorMessage(err) == err.message

(* parseError(error): 'Error' without an error, else the error's message *)
parseError(error) == IF error = None THEN "Error" ELSE getErrorMessage(Val(error))

(* failure(message, statusCode, error) / expressFailure: the response's status *)
(* and the message and error.message of its body                               *)
failure(message, statusCode, error) ==
  [statusCode |-> statusCode, message |-> message, error |-> parseError(error)]

(* catch (err) of the Lambda handler and the global error handler of the app: *)
(* failure(getErrorMessage(err), statusCode, err)                              *)
HttpCatch(err) ==
  failure(getErrorMessage(err), ErrorStatus(err), Some(err)) @@ [thrown |-> Some(err)]

(* what the handler behind a route ends with *)
HandlerEnd(outcome, thrown) ==
  IF outcome = "value"
    THEN [statusCode |-> 200, message |-> "", error |-> "", thrown |-> None]
  ELSE IF outcome = "coded"
    THEN HttpCatch(HttpCodedError(400, "Invalid or expired resource", FALSE))
  ELSE HttpCatch(PlainError(thrown))

(* the handler behind a route ran (after its guard, if it has one) and ended  *)
(* with `outcome`                                                              *)
RunRoute(req, guarded, g, outcome, thrown, t) ==
  IF guarded /\ g.kind # "next"
    THEN HttpCatch(Val(g.err)) @@
         [at |-> t, guard |-> Some(g),
          nextCalls |-> 0, handler |-> None, shareableContext |-> None]
  ELSE HandlerEnd(outcome, thrown) @@
       [at |-> t,
        guard |-> IF guarded THEN Some(g) ELSE None,
        nextCalls |-> IF guarded THEN 1 ELSE 0,
        handler |-> Some(<<req.resource, req.action>>),
        shareableContext |-> IF guarded THEN g.ctx ELSE None]

(* handler of http-router: resource lookup, 'METHOD:action' lookup, run *)
LambdaHandle(req, impl, outcome, thrown, t) ==
  IF req.resource \notin DOMAIN routingMap \cup InheritedKeys
    THEN failure("Invalid resource", 400, None) @@ [thrown |-> None, at |-> t] @@ NoHandler
  ELSE IF req.resource \in InheritedKeys
          \/ <<req.method, req.action>> \notin routingMap[req.resource]
    THEN failure("Cannot do this on the resource", 400, None)
         @@ [thrown |-> None, at |-> t] @@ NoHandler
  ELSE RunRoute(req, HttpGuarded(req.resource, req.action),
                jwtMiddleware(impl, req.headers, t), outcome, thrown, t)

(* setupHttpRoutes / createApp: router.post(path, [guard,] handler), the 404   *)
(* handler for everything else, the global error handler                       *)
ExpressHandle(req, impl, outcome, thrown, t) ==
  IF req.method # "POST" \/ req.resource \notin DOMAIN routingMap
     \/ <<req.method, req.action>> \notin routingMap[req.resource]
    THEN failure("Route not found", 404, None) @@ [thrown |-> None, at |-> t] @@ NoHandler
  ELSE RunRoute(req, HttpGuarded(req.resource, req.action),
                jwtExpressMiddleware(impl, req.headers, t), outcome, thrown, t)

HttpInit ==
  /\ StoreStart /\ GateIdle /\ WsIdle /\ HttpIdle
  /\ tkImpl \in {"null", "throw"}
  /\ tkPayload = MkContext("SHARE1")
  /\ tkTtl = 0
  /\ tkToken = None
  /\ tkOrigin = "none"
  /\ tkIssued = 0
  /\ tkOut = NoOut

(* a request arrives (requests share no state, so one is followed at a time) *)
HttpArrives(req) ==
  /\ hReq = None
  /\ hReq' = Some(req)
  /\ hOut' = None
  /\ lastOp' = "request"
  /\ UNCHANGED <<storeVars, tokenVars, gateVars, wsVars, dcOut, mw, rq>>

(* the request is handled; `outcome` is how the handler behind the route ends *)
HttpHandle(outcome, thrown) ==
  /\ hReq # None /\ hOut = None
  /\ hOut' = Some(IF Val(hReq).transport = "lambda"
                  THEN LambdaHandle(Val(hReq), tkImpl, outcome, thrown, now)
                  ELSE ExpressHandle(Val(hReq), tkImpl, outcome, thrown, now))
  /\ lastOp' = "respond"
  /\ UNCHANGED <<hReq, storeVars, tokenVars, gateVars, wsVars, dcOut, mw, rq>>

HttpNext ==
  \/ \E req \in HttpRequests : HttpArrives(req)
  \/ \E outcome \in {"value", "coded", "error"}, thrown \in ExceptionMessages :
       HttpHandle(outcome, thrown)
  \/ Tick

HttpSpec == HttpInit /\ [][HttpNext]_vars

----------------------------------------------------------------------------
RegisteredCommands == messageRoutingMap \ {AuthenticateCmd}

(* C1: a business handler is invoked for a frame only if the record read for   *)
(* that frame has authenticated = true and a shareableContext, and a backend   *)
(* business call is only ever made on a connection whose authenticate has      *)
(* completed with a save                                                       *)
C1_BusinessBehindGate ==
  \A c \in WsConns : \A i \in DOMAIN tasks[c] :
    LET t == tasks[c][i] IN
    (CommandKey(t.frame) \in BusinessCommands /\ t.pc # "done") =>
      /\ t.handler =>
           /\ t.conn # None
           /\ Val(t.conn).authenticated
           /\ Val(t.conn).shareableContext # None
           /\ t.gate = "passed"
      /\ t.call # None => authOk[c]

C1_Witness ==
  \E c \in WsConns : \E i \in DOMAIN tasks[c] :
    /\ CommandKey(tasks[c][i].frame) \in BusinessCommands
    /\ tasks[c][i].pc = "backend"
    /\ tasks[c][i].handler
    /\ Val(tasks[c][i].conn).authenticated

(* C2: on a connection that has never sent authenticate, and whose record the  *)
(* store returned, every frame with a command other than authenticate is       *)
(* answered with a 401 error frame carrying that command and the connection is *)
(* then closed                                                                 *)
C2_NeverAuthenticatedGets401 ==
  \A c \in WsConns : \A i \in DOMAIN tasks[c] :
    LET t == tasks[c][i] IN
    (~sentAuth[c] /\ t.frame.command # Some(AuthenticateCmd) /\ t.conn # None /\ t.resp # None) =>
      /\ Val(t.resp).statusCode = 401
      /\ Val(t.resp).message = NotAuthenticatedMessage
      /\ ~Val(t.resp).success
      /\ t.close

(* C6: once the store delete of a disconnect is done, the store holds no       *)
(* record for that connection in any later state                               *)
C6_DisconnectedIsTerminal ==
  \A c \in WsConns : disconnectDel[c] = "done" => store[c] = None

(* C7: the handling of a frame starts only after the handling of the previous  *)
(* frame of the connection has completed, so a command sent after an           *)
(* authenticate that succeeds is never rejected on a stale record              *)
C7_FramesSequential ==
  \A c \in WsConns : \A i, j \in DOMAIN tasks[c] :
    i < j =>
      /\ tasks[c][j].pc # "get" => tasks[c][i].pc = "done"
      /\ (tasks[c][i].saved /\ CommandKey(tasks[c][j].frame) \in RegisteredCommands)
           => tasks[c][j].gate # "rejected"

C11_GuardOutcomes ==
  (hOut # None /\ Val(hOut).guard # None) =>
    LET h == Val(hReq).headers
        o == Val(hOut)
        g == Val(o.guard)
        bearer == h.kind = "auth" /\ BearerMatch(h).matched /\ BearerMatch(h).token # ""
    IN IF bearer /\ jwtVerify(TokenOf(h.cred), Secret, o.at).kind = "value"
       THEN /\ g.kind = "next"
            /\ o.nextCalls = 1
            /\ o.shareableContext = jwtVerify(TokenOf(h.cred), Secret, o.at).value
       ELSE /\ g.kind = "coded"
            /\ Val(g.err).statusCode = 401
            /\ o.statusCode = 401
            /\ o.nextCalls = 0
            /\ o.handler = None

(* C12: a handler of webchat or upload runs only for a request whose           *)
(* Authorization header carries a bearer token that verifies, and sees the     *)
(* context verified from that token; without such a token only resource/get    *)
(* runs                                                                        *)
C12_ProtectedNeedVerifiedToken ==
  (hOut # None /\ Val(hOut).handler # None) =>
    LET h == Val(hReq).headers
        o == Val(hOut)
    IN /\ Val(o.handler) = <<Val(hReq).resource, Val(hReq).action>>
       /\ Val(hReq).method = "POST"
       /\ \/ /\ Val(o.handler) = <<"resource", "get">>
             /\ o.shareableContext = None
          \/ /\ Val(o.handler) \in {<<"webchat", "send">>, <<"webchat", "get-history">>,
                                    <<"upload", "get-link">>, <<"upload", "confirm">>}
             /\ h.kind = "auth" /\ h.scheme \in {"Bearer", "bearer"} /\ h.cred # ""
             /\ jwtVerify(TokenOf(h.cred), Secret, o.at).kind = "value"
             /\ o.shareableContext = jwtVerify(TokenOf(h.cred), Secret, o.at).value
             /\ o.nextCalls = 1

C12_Witness ==
  /\ hOut # None
  /\ Val(hOut).handler = Some(<<"upload", "confirm">>)
  /\ Val(hOut).statusCode = 200
  /\ Val(hOut).shareableContext # None

(* C13: the WebSocket command resource:get is public: a frame carrying it is   *)
(* never rejected by the authentication gate, whether or not the connection    *)
(* has authenticated                                                           *)
C13_ResourceGetPublic ==
  \A c \in WsConns : \A i \in DOMAIN tasks[c] :
    CommandKey(tasks[c][i].frame) = <<"resource", "get">> => tasks[c][i].gate # "rejected"

(* C14: when handling a frame throws, a coded error is answered with an error *)
(* frame carrying its status and message and any other error with a 500       *)
(* 'Internal server error' frame; the server terminates the connection only   *)
(* for a coded error with shouldClose, only after that frame was pushed, and   *)
(* otherwise leaves it open                                                    *)
C14_CaughtErrors ==
  /\ [](\A c \in WsConns : \A i \in DOMAIN tasks[c] :
          LET t == tasks[c][i] IN
          t.err # None =>
            /\ t.pc \in {"send", "close"}
            /\ t.resp = Some(wsFailure(ErrorCommand(t.frame),
                               IF Val(t.err).coded THEN Val(t.err).message
                                                   ELSE "Internal server error",
                               IF Val(t.err).coded THEN Val(t.err).statusCode ELSE 500))
            /\ (t.pc = "close" => Val(t.err).coded /\ Val(t.err).shouldClose))
  /\ [][\A c \in WsConns :
          /\ \A i \in DOMAIN tasks[c] :
               (tasks[c][i].pc = "send" /\ tasks[c][i].err # None /\ tasks'[c][i].pc # "send") =>
                 /\ outbox'[c] = IF registered[c] /\ sock[c] = "open"
                                 THEN Append(outbox[c], Val(tasks[c][i].resp))
                                 ELSE outbox[c]
                 /\ sock' = sock
                 /\ tasks'[c][i].pc =
                      IF Val(tasks[c][i].err).coded /\ Val(tasks[c][i].err).shouldClose
                      THEN "close" ELSE "done"
          /\ (sock[c] = "open" /\ sock'[c] = "closing") =>
               \E j \in DOMAIN tasks[c] :
                  /\ tasks[c][j].pc = "close" /\ tasks'[c][j].pc = "done"
                  /\ tasks[c][j].err # None
                  /\ Val(tasks[c][j].err).shouldClose
     ]_vars

(* C16: a connect-time save that fails never makes the server close or reject *)
(* the connection: while the client has not closed it, the socket stays open   *)
C16_SaveFailureKeepsOpen ==
  \A c \in WsConns : connectSave[c] = "failed" => sock[c] # "closing"

(* C15: a frame for a connection id that has no record in the store is       *)
(* answered with one 'Connection not found' error frame and nothing else: no   *)
(* handler or backend call, no gate check, no close, and the store, the socket *)
(* and the registry are left as they were                                      *)
C15_UnknownConnection ==
  /\ [](\A c \in WsConns : \A i \in DOMAIN tasks[c] :
          LET t == tasks[c][i] IN
          (t.read /\ t.conn = None /\ t.pc # "done") =>
            /\ t.pc = "send"
            /\ t.resp = Some(wsFailure(<<"">>, "Connection not found", 404))
            /\ ~t.close /\ ~t.handler /\ ~t.saved
            /\ t.call = None /\ t.gate = "none" /\ t.err = None)
  /\ [][\A c \in WsConns : \A i \in DOMAIN tasks[c] :
          /\ (tasks[c][i].pc = "get" /\ store[c] = None /\ tasks'[c][i].read) =>
               /\ tasks'[c][i].conn = None
               /\ store' = store /\ sock' = sock /\ registered' = registered
               /\ outbox' = outbox
          /\ (tasks[c][i].read /\ tasks[c][i].conn = None /\ tasks[c][i].pc = "send"
              /\ tasks'[c][i].pc # "send") =>
               /\ tasks'[c][i].pc = "done"
               /\ store' = store /\ sock' = sock /\ registered' = registered
               /\ outbox'[c] = IF registered[c] /\ sock[c] = "open"
                               THEN Append(outbox[c], wsFailure(<<"">>, "Connection not found", 404))
                               ELSE outbox[c]
     ]_vars

C15_Witness ==
  \E c \in WsConns :
    /\ store[c] = None
    /\ sock[c] = "open"
    /\ Len(tasks[c]) = 1 /\ tasks[c][1].pc = "done" /\ tasks[c][1].read
    /\ outbox[c] = <<wsFailure(<<"">>, "Connection not found", 404)>>

(* C17: authenticate fails with a coded 400 when the frame has no token and    *)
(* when the backend exchange yields nothing; an authenticate that fails, for   *)
(* whatever reason, has not written the connection's record: every step it     *)
(* takes leaves the record as it was, so an authenticated connection keeps its *)
(* context                                                                     *)
C17_FailedAuthenticateKeepsRecord ==
  /\ [](\A c \in WsConns : \A i \in DOMAIN tasks[c] :
          LET t == tasks[c][i] IN
          (CommandKey(t.frame) = AuthenticateCmd /\ t.handler /\ t.pc \in {"send", "close"}) =>
            /\ t.frame.token = None =>
                 /\ t.err = Some(HttpCodedError(400, "Token is required", FALSE))
                 /\ t.answer = None
            /\ t.answer = Some("undefined") =>
                 t.err = Some(HttpCodedError(400, "Invalid or expired resource", FALSE))
            /\ t.err # None => ~t.saved /\ ~t.close
            /\ t.err = None => t.saved)
  /\ [][\A c \in WsConns : \A i \in DOMAIN tasks[c] :
          (/\ CommandKey(tasks[c][i].frame) = AuthenticateCmd
           /\ tasks'[c][i] # tasks[c][i]
           /\ ~tasks'[c][i].saved) =>
             /\ store'[c] = store[c]
             /\ authOk' = authOk
     ]_vars

C17_Witness ==
  \E c \in WsConns :
    /\ Len(tasks[c]) = 2
    /\ tasks[c][1].saved
    /\ CommandKey(tasks[c][2].frame) = AuthenticateCmd
    /\ tasks[c][2].answer = Some("undefined")
    /\ tasks[c][2].err = Some(HttpCodedError(400, "Invalid or expired resource", FALSE))
    /\ store[c] # None
    /\ Val(store[c]).authenticated
    /\ Val(store[c]).shareableContext = Some(MkContext("SHARE1"))

C19_ExactMatchOnly ==
  \A c \in WsConns : \A i \in DOMAIN tasks[c] :
    tasks[c][i].handler =>
      /\ tasks[c][i].frame.command # None
      /\ Val(tasks[c][i].frame.command) \in messageRoutingMap

(* C20: a frame whose command is not in the routing table is answered with a  *)
(* client error (status 400..499), never with a success or a 500               *)
C20_UnknownIsClientError ==
  \A c \in WsConns : \A i \in DOMAIN tasks[c] :
    LET t == tasks[c][i] IN
    (t.read /\ t.conn # None /\ t.resp # None /\ CommandKey(t.frame) \notin messageRoutingMap) =>
      /\ ~Val(t.resp).success
      /\ Val(t.resp).statusCode \in 400..499

(* C21: a frame whose text is not a JSON object with a command, received on a *)
(* connection that has a record, is answered with the 400 'Unknown command'    *)
(* error frame                                                                 *)
C21_NonObjectGetsUnknownCommand ==
  \A c \in WsConns : \A i \in DOMAIN tasks[c] :
    LET t == tasks[c][i] IN
    (t.frame \in {safeJson(body) : body \in FrameTexts} /\ t.read /\ t.conn # None) =>
      /\ t.pc = "send"
      /\ t.err = None
      /\ t.resp = Some(wsFailure(<<"">>, "Unknown command", 400))

(* C22: every outbound frame carries in its command field the exact command  *)
(* string of the inbound frame it answers                                      *)
C22_FrameEchoesCommand ==
  \A c \in WsConns : \A i \in DOMAIN tasks[c] :
    LET t == tasks[c][i] IN
    (t.pc = "send" /\ t.resp # None /\ t.frame.command # None) =>
      Val(t.resp).command = Val(t.frame.command)

(* C23: a push that fails is caught inside handleMessage: the handler never   *)
(* ends in an escaped exception, a push that throws in the try body is handled *)
(* as an unclassified error, one that throws in the catch block ends the       *)
(* handler, and the failing push changes neither the store nor anything of the *)
(* other connection                                                            *)
C23_DeliveryFailureCaught ==
  /\ [](\A c \in WsConns : \A i \in DOMAIN tasks[c] :
          LET t == tasks[c][i] IN
          /\ t.pc \in {"get", "backend", "save", "send", "close", "done"}
          /\ t.pushFailed =>
               /\ t.pc = "send"
               /\ t.err = Some(PlainError("PostToConnection"))
               /\ t.resp = Some(wsFailure(ErrorCommand(t.frame), "Internal server error", 500))
               /\ ~t.close)
  /\ [][\A c \in WsConns : \A i \in DOMAIN tasks[c] :
          (/\ tasks[c][i].pc = "send"
           /\ tasks'[c][i] # tasks[c][i]
           /\ outbox' = outbox) =>
             /\ tasks'[c][i].pc \in {"send", "close", "done"}
             /\ store' = store
             /\ authOk' = authOk
             /\ \A d \in ConnIds \ {c} :
                  /\ sock'[d] = sock[d] /\ registered'[d] = registered[d]
                  /\ tasks'[d] = tasks[d]
     ]_vars

C23_Witness ==
  \E c \in WsConns, d \in ConnIds \ WsConns :
    /\ sock[d] = "open" /\ store[d] # None
    /\ sock[c] = "open" /\ registered[c]
    /\ Len(tasks[c]) = 2
    /\ tasks[c][1].saved
    /\ tasks[c][2].pushFailed
    /\ tasks[c][2].handler
    /\ Len(outbox[c]) = 1

(* C24: a frame with command webchat:send, session id s and message m on an   *)
(* authenticated connection makes one call of the backend send function, with  *)
(* s, the frame's fields other than command and sessionId, and the token of    *)
(* the shareableContext in the connection's record; the value it returns is    *)
(* sent back in a success frame under command webchat:send                     *)
C24_WebchatSendCall ==
  /\ [](\A c \in WsConns : \A i \in DOMAIN tasks[c] :
          LET t == tasks[c][i] IN
          (t.frame.command = Some(<<"webchat", "send">>) /\ t.frame.message # None) =>
            /\ t.pc = "backend" =>
                 /\ t.conn # None /\ Val(t.conn).authenticated
                 /\ t.call = Some([fn |-> "sendWebchatMessage",
                                   sessionId |-> t.frame.sessionId,
                                   message |-> t.frame.message,
                                   payload |-> Some([token |-> t.frame.token,
                                                     message |-> t.frame.message]),
                                   shareableToken |-> Val(Val(t.conn).shareableContext).token])
            /\ (t.pc = "send" /\ t.answer = Some("value")) =>
                 /\ t.err = None
                 /\ t.resp = Some(wsSuccess(<<"webchat", "send">>, [echo |-> Val(t.call)], 200)))
  /\ [][\A c \in WsConns : \A i \in DOMAIN tasks[c] :
          (tasks[c][i].frame.command = Some(<<"webchat", "send">>)
           /\ tasks'[c][i].pc = "backend" /\ tasks[c][i].pc # "backend") =>
             /\ tasks[c][i].pc = "get"
             /\ tasks[c][i].call = None /\ tasks[c][i].answer = None
             /\ store[c] # None
             /\ Val(store[c]).authenticated
             /\ Val(tasks'[c][i].call).shareableToken = Val(Val(store[c]).shareableContext).token
     ]_vars

C24_Witness ==
  \E c \in WsConns : \E i \in DOMAIN tasks[c] :
    /\ tasks[c][i].frame.command = Some(<<"webchat", "send">>)
    /\ tasks[c][i].pc = "send"
    /\ tasks[c][i].answer = Some("value")
    /\ tasks[c][i].resp # None
    /\ Val(tasks[c][i].resp).success
    /\ Val(tasks[c][i].call).shareableToken = "SHARE1"

----------------------------------------------------------------------------
(* C5: in every reachable state of the connection store every record has   *)
(* authenticated = TRUE exactly when its shareableContext is present.       *)
C5_AuthIffContext ==
  \A c \in ConnIds :
    store[c] # None =>
      (Val(store[c]).authenticated <=> IsSome(Val(store[c]).shareableContext))

C5_Witness ==
  /\ lastOp = "save"
  /\ \E c \in ConnIds : store[c] # None /\ Val(store[c]).authenticated
  /\ \E c \in ConnIds : store[c] # None /\ ~Val(store[c]).authenticated

(* C8: a getConnection that finds a stored record whose ttl has passed      *)
(* returns null and leaves the store without that record.                   *)
C8_ExpiredReadsAsMissing ==
  (lastOp = "get" /\ lastGet.expired) => (lastGet.result = None /\ lastGet.purged)

----------------------------------------------------------------------------
(* Middleware chain (applyMiddleware of the HTTP router) *)

(* the longest middleware list followed *)
MaxChain == 3

(* what a middleware does with the event it receives: call next with an
   event it has added to, answer by itself without calling next, or throw *)
MiddlewareKinds == {"next", "return", "throw"}

MiddlewareLists == UNION {[1..n -> MiddlewareKinds] : n \in 0..MaxChain}

(* the event the composed handler is called with *)
FirstEvent == <<0>>

(* applyMiddleware(handler, middlewares): the composed function, called with event *)
applyMiddleware(middlewares, event) ==
  [chain |-> middlewares, first |-> event, index |-> 0, event |-> event,
   ran |-> <<>>, handled |-> None, status |-> "running"]

M_executeMiddleware_RunsOn(m) ==
  IF m.index >= Len(m.chain)
  THEN [m EXCEPT !.handled = Some(m.event), !.status = "done"]
  ELSE LET k == m.index + 1
           seen == Append(m.ran, [index |-> k, event |-> m.event])
       IN CASE m.chain[k] = "next" ->
                 [m EXCEPT !.ran = seen, !.index = k, !.event = Append(m.event, k)]
            [] m.chain[k] = "return" -> [m EXCEPT !.ran = seen, !.index = k]
            [] OTHER -> [m EXCEPT !.ran = seen, !.status = "thrown"]

(* executeMiddleware(index, currentEvent): past the end of the list the handler
   is called with the current event; otherwise the middleware at index is
   called with it and with a next that continues at index + 1 with the event
   the middleware hands over *)
executeMiddleware(m) ==
  IF m.index >= Len(m.chain)
  THEN [m EXCEPT !.handled = Some(m.event), !.status = "done"]
  ELSE LET k == m.index + 1
           seen == Append(m.ran, [index |-> k, event |-> m.event])
       IN CASE m.chain[k] = "next" ->
                 [m EXCEPT !.ran = seen, !.index = k, !.event = Append(m.event, k)]
            [] m.chain[k] = "return" -> [m EXCEPT !.ran = seen, !.status = "returned"]
            [] OTHER -> [m EXCEPT !.ran = seen, !.status = "thrown"]

ChainCall(middlewares) ==
  /\ IF mw = None THEN TRUE ELSE Val(mw).status # "running"
  /\ mw' = Some(applyMiddleware(middlewares, FirstEvent))
  /\ lastOp' = "applyMiddleware"
  /\ UNCHANGED <<storeVars, tokenVars, gateVars, wsVars, hReq, hOut, dcOut, rq>>

ChainStep ==
  /\ mw # None /\ Val(mw).status = "running"
  /\ mw' = Some(executeMiddleware(Val(mw)))
  /\ lastOp' = "executeMiddleware"
  /\ UNCHANGED <<storeVars, tokenVars, gateVars, wsVars, hReq, hOut, dcOut, rq>>

ChainInit == StoreStart /\ TokenIdle /\ GateIdle /\ WsIdle /\ HttpIdle

ChainNext ==
  \/ \E middlewares \in MiddlewareLists : ChainCall(middlewares)
  \/ ChainStep

ChainSpec == ChainInit /\ [][ChainNext]_vars

(* C25: the middlewares run in list order, the first with the event of the
   call and each later one with the event its predecessor passed to next; the
   handler runs last, only after every middleware called next, with the event
   the last one passed; after a middleware that throws or returns without
   calling next, no later middleware and not the handler runs *)
C25_ChainOrder ==
  mw # None =>
    LET m == Val(mw)
        n == Len(m.chain)
        r == m.ran
    IN /\ Len(r) <= n
       /\ \A k \in 1..Len(r) :
            /\ r[k].index = k
            /\ r[k].event = IF k = 1 THEN m.first ELSE Append(r[k - 1].event, k - 1)
            /\ k > 1 => m.chain[k - 1] = "next"
            /\ m.chain[k] # "next" => Len(r) = k /\ m.handled = None
       /\ m.handled # None =>
            /\ Len(r) = n
            /\ \A k \in 1..n : m.chain[k] = "next"
            /\ Val(m.handled) = IF n = 0 THEN m.first ELSE Append(r[n].event, n)
       /\ m.status = "done" <=> m.handled # None
       /\ (m.status # "running" /\ \A k \in 1..n : m.chain[k] = "next") => m.handled # None

C25_Witness ==
  /\ mw # None
  /\ Len(Val(mw).chain) >= 2
  /\ Val(mw).handled = Some(<<0, 1, 2>>)

----------------------------------------------------------------------------
(* Backend HTTP client (createHttpClient: retry and error mapping) *)

MAX_RETRY_ATTEMPTS == 5
INITIAL_RETRY_DELAY == 100
MAX_RETRY_DELAY == 5000

(* what an attempt can end with: 0 stands for no response at all (timeout,
   DNS, refused, reset), anything else is the status of the backend's answer *)
BackendStatuses == {0, 200, 400, 401, 403, 404, 429, 500, 501, 502, 503, 504}

Pow2(n) == IF n <= 0 THEN 1 ELSE 2 ^ n

isRetryableError(status) ==
  IF status = 0 THEN TRUE ELSE status \in {401, 429, 500, 502, 503, 504}

(* Math.min(INITIAL_RETRY_DELAY * Math.pow(2, retryCount), MAX_RETRY_DELAY) *)
RetryDelay(retryCount) ==
  IF INITIAL_RETRY_DELAY * Pow2(retryCount) < MAX_RETRY_DELAY
  THEN INITIAL_RETRY_DELAY * Pow2(retryCount)
  ELSE MAX_RETRY_DELAY

mapBackendErrorToFrontend(status) ==
  CASE status \in {401, 403} -> [statusCode |-> 400, message |-> "Invalid or expired token"]
    [] status = 404 -> [statusCode |-> 400, message |-> "Resource not found"]
    [] status = 429 -> [statusCode |-> 429, message |-> "Too many requests"]
    [] status \in {500, 502, 503} ->
         [statusCode |-> 503, message |-> "Service temporarily unavailable"]
    [] OTHER -> [statusCode |-> 500, message |-> "Service error"]

M_ShouldRetry_NoLimit(status, retryCount) ==
  isRetryableError(status)

(* the interceptor's test before it retries *)
ShouldRetry(status, retryCount) ==
  isRetryableError(status) /\ retryCount < MAX_RETRY_ATTEMPTS

(* client.request(config) by a caller: a fresh config, no __retryCount yet *)
ClientRequest ==
  /\ IF rq = None THEN TRUE ELSE Val(rq).pc \in {"done", "failed"}
  /\ rq' = Some([pc |-> "sending", retryCount |-> 0, attempts |-> 0, slept |-> <<>>,
                 last |-> 200, retried |-> {}, out |-> None])
  /\ lastOp' = "request"
  /\ UNCHANGED <<storeVars, tokenVars, gateVars, wsVars, hReq, hOut, dcOut, mw>>

(* an attempt ends with `status`; on an error the interceptor either counts a
   retry and starts its sleep, or rejects with the mapped error *)
ClientAttempt(status) ==
  /\ rq # None /\ Val(rq).pc = "sending"
  /\ LET r == [Val(rq) EXCEPT !.attempts = @ + 1, !.last = status]
     IN rq' = Some(
          IF status = 200
          THEN [r EXCEPT !.pc = "done", !.out = Some([statusCode |-> 200, message |-> ""])]
          ELSE IF ShouldRetry(status, r.retryCount)
               THEN [r EXCEPT !.pc = "sleeping", !.retryCount = @ + 1,
                              !.slept = Append(@, RetryDelay(r.retryCount)),
                              !.retried = @ \cup {status}]
               ELSE [r EXCEPT !.pc = "failed", !.out = Some(mapBackendErrorToFrontend(status))])
  /\ lastOp' = "attempt"
  /\ UNCHANGED <<storeVars, tokenVars, gateVars, wsVars, hReq, hOut, dcOut, mw>>

(* the sleep is over: client.request(config) again, with the counted config *)
ClientRetry ==
  /\ rq # None /\ Val(rq).pc = "sleeping"
  /\ rq' = Some([Val(rq) EXCEPT !.pc = "sending"])
  /\ lastOp' = "retry"
  /\ UNCHANGED <<storeVars, tokenVars, gateVars, wsVars, hReq, hOut, dcOut, mw>>

ClientInit == StoreStart /\ TokenIdle /\ GateIdle /\ WsIdle /\ HttpIdle

ClientNext ==
  \/ ClientRequest
  \/ \E status \in BackendStatuses : ClientAttempt(status)
  \/ ClientRetry

(* every attempt ends (the request has a timeout) and every sleep ends *)
ClientSpec ==
  /\ ClientInit /\ [][ClientNext]_vars
  /\ WF_vars(\E status \in BackendStatuses : ClientAttempt(status))
  /\ WF_vars(ClientRetry)

(* C26: a failed backend request is rejected with 400 for 401 and 403, 400 for
   404, 429 for 429, 503 for every 5xx status and 500 for everything else *)
C26_BackendErrorMapping ==
  (rq # None /\ Val(rq).pc = "failed") =>
    LET status == Val(rq).last
    IN Val(Val(rq).out).statusCode =
         CASE status \in {401, 403, 404} -> 400
           [] status = 429 -> 429
           [] status \in 500..599 -> 503
           [] OTHER -> 500

(* C27: a request is retried only after a network error, 401, 429 or a 5xx
   answer and at most MAX_RETRY_ATTEMPTS times, retry k sleeps
   min(100 * 2^k, 5000) ms, the attempt after the last retry ends the request
   whatever it yields, a failed request carries a coded error, and every
   request that was started ends *)
C27_RetriesBounded ==
  /\ [](rq # None =>
          LET r == Val(rq)
          IN /\ r.retryCount <= MAX_RETRY_ATTEMPTS
             /\ r.attempts <= MAX_RETRY_ATTEMPTS + 1
             /\ Len(r.slept) = r.retryCount
             /\ r.retried \subseteq ({0, 401, 429} \cup (500..599))
             /\ \A k \in 0..(Len(r.slept) - 1) :
                  r.slept[k + 1] = IF 100 * (2 ^ k) < 5000 THEN 100 * (2 ^ k) ELSE 5000
             /\ r.attempts = MAX_RETRY_ATTEMPTS + 1 => r.pc \in {"done", "failed"}
             /\ r.pc = "failed" =>
                  r.out # None /\ Val(r.out).statusCode \in {400, 429, 500, 503})
  /\ (rq # None /\ Val(rq).pc = "sending") ~> (rq # None /\ Val(rq).pc \in {"done", "failed"})

C27_Witness ==
  /\ rq # None
  /\ Val(rq).pc = "failed"
  /\ Val(rq).attempts = MAX_RETRY_ATTEMPTS + 1
  /\ Val(rq).slept = <<100, 200, 400, 800, 1600>>

----------------------------------------------------------------------------
(* C28: an exception that is not a coded error reaches the client as a 500
   whose message and error are the same whatever the exception was: over
   HTTP the response to the request is the one any other such exception
   would have produced, and a WebSocket frame sent for such an exception is
   the fixed 'Internal server error' frame *)
C28_InternalErrorsGeneric ==
  /\ (hOut # None /\ Val(hOut).thrown # None /\ ~Val(Val(hOut).thrown).coded) =>
       LET o == Val(hOut) IN
       /\ o.statusCode = 500
       /\ \A m \in ExceptionMessages :
            LET other == IF Val(hReq).transport = "lambda"
                         THEN LambdaHandle(Val(hReq), tkImpl, "error", m, o.at)
                         ELSE ExpressHandle(Val(hReq), tkImpl, "error", m, o.at)
            IN other.message = o.message /\ other.error = o.error
  /\ \A c \in ConnIds : \A i \in 1..Len(tasks[c]) :
       LET t == tasks[c][i] IN
       (t.pc = "send" /\ t.err # None /\ ~Val(t.err).coded /\ t.resp # None) =>
         /\ Val(t.resp).statusCode = 500
         /\ Val(t.resp).message = "Internal server error"

----------------------------------------------------------------------------
(* C29: a bearer token that fails verification fails the same way whatever
   the reason: verify ends the same for a malformed, a forged and an expired
   token, and the response to the request is the one the request would get
   with any other token that fails *)
C29_FailureReasonHidden ==
  (/\ hOut # None
   /\ Val(hOut).guard # None
   /\ Val(hReq).headers.kind = "auth"
   /\ BearerMatch(Val(hReq).headers).matched
   /\ Val(hReq).headers.cred # ""
   /\ tokenService_verify(tkImpl, TokenOf(Val(hReq).headers.cred), Val(hOut).at).kind # "value") =>
    LET o == Val(hOut)
        req == Val(hReq)
        mine == tokenService_verify(tkImpl, TokenOf(req.headers.cred), o.at)
    IN \A cred \in WireTokens :
         LET theirs == tokenService_verify(tkImpl, TokenOf(cred), o.at)
             r == [req EXCEPT !.headers.cred = cred]
             other == IF req.transport = "lambda"
                      THEN LambdaHandle(r, tkImpl, "value", "", o.at)
                      ELSE ExpressHandle(r, tkImpl, "value", "", o.at)
         IN theirs.kind # "value" =>
              /\ theirs = mine
              /\ other.statusCode = o.statusCode
              /\ other.message = o.message
              /\ other.error = o.error
              /\ other.handler = None /\ o.handler = None

C29_Witness ==
  /\ hOut # None
  /\ Val(hOut).guard # None
  /\ Val(hReq).headers.kind = "auth"
  /\ Val(hReq).headers.scheme = "Bearer"
  /\ Val(hReq).headers.cred = "good"
  /\ Val(hReq).transport = "lambda"
  /\ tkImpl = "null"
  /\ Val(hOut).statusCode = 401

----------------------------------------------------------------------------
(* POST /resource/get (resourceModule.get behind the HTTP router) *)

(* the token of the request body: missing, empty, known to the backend or not *)
BodyTokens == {None, Some(""), Some("SHARE1"), Some("SHARE2"), Some("BAD")}

M_resourceGet_TokenAnyway(token, outcome, t) ==
  IF token = None \/ token = Some("")
    THEN [kind |-> "coded", err |-> Some(HttpCodedError(400, "Token is required", FALSE)),
          result |-> None, answer |-> None, generated |-> 0]
  ELSE IF outcome = "error"
    THEN [kind |-> "thrown", err |-> Some(PlainError("backend")),
          result |-> None, answer |-> Some(outcome), generated |-> 0]
  ELSE IF outcome = "coded"
    THEN [kind |-> "coded", err |-> Some(HttpCodedError(400, "Invalid or expired token", FALSE)),
          result |-> None, answer |-> Some(outcome), generated |-> 0]
  ELSE LET shareable == MkContext(Val(token))
           authToken == generate(shareable, DefaultTransientTTL, t)
       IN [kind |-> "value", err |-> None,
           result |-> Some([config |-> shareable, authToken |-> Val(authToken.value)]),
           answer |-> Some(outcome), generated |-> 1]

(* get: 'Token is required' without a token; else getConfiguration(token),   *)
(* 'Invalid or expired resource' when it yields nothing, else                   *)
(* { config: shareable, authToken: tokenService.generate(shareable) }           *)
resourceGet(token, outcome, t) ==
  IF token = None \/ token = Some("")
    THEN [kind |-> "coded", err |-> Some(HttpCodedError(400, "Token is required", FALSE)),
          result |-> None, answer |-> None, generated |-> 0]
  ELSE IF outcome = "error"
    THEN [kind |-> "thrown", err |-> Some(PlainError("backend")),
          result |-> None, answer |-> Some(outcome), generated |-> 0]
  ELSE IF outcome = "coded"
    THEN [kind |-> "coded", err |-> Some(HttpCodedError(400, "Invalid or expired token", FALSE)),
          result |-> None, answer |-> Some(outcome), generated |-> 0]
  ELSE IF outcome = "undefined"
    THEN [kind |-> "coded", err |-> Some(HttpCodedError(400, "Invalid or expired resource", FALSE)),
          result |-> None, answer |-> Some(outcome), generated |-> 0]
  ELSE LET shareable == MkContext(Val(token))
           authToken == generate(shareable, DefaultTransientTTL, t)
       IN IF authToken.kind = "throw"
          THEN [kind |-> "thrown", err |-> Some(PlainError("jwt.sign")),
                result |-> None, answer |-> Some(outcome), generated |-> 1]
          ELSE [kind |-> "value", err |-> None,
                result |-> Some([config |-> shareable, authToken |-> Val(authToken.value)]),
                answer |-> Some(outcome), generated |-> 1]

(* the router's answer: success(response.result) or the catch's failure *)
ResourceResponse(r, t) ==
  (IF r.kind = "value"
   THEN [statusCode |-> 200, message |-> "", error |-> "", thrown |-> None]
   ELSE HttpCatch(Val(r.err)))
  @@ [result |-> r.result, answer |-> r.answer, generated |-> r.generated, at |-> t]

(* what the exchange can yield for the token sent to it *)
ExchangeOutcomes(token) ==
  IF token = None \/ token = Some("") THEN {"value"}
  ELSE BackendOutcomes([fn |-> "getConfiguration", shareableToken |-> Val(token)])

ResourceArrives(transport, token) ==
  /\ hReq = None
  /\ hReq' = Some([transport |-> transport, method |-> "POST", resource |-> "resource",
                   action |-> "get", token |-> token])
  /\ hOut' = None
  /\ lastOp' = "request"
  /\ UNCHANGED <<storeVars, tokenVars, gateVars, wsVars, dcOut, mw, rq>>

ResourceHandle(outcome) ==
  /\ hReq # None /\ hOut = None
  /\ outcome \in ExchangeOutcomes(Val(hReq).token)
  /\ hOut' = Some(ResourceResponse(resourceGet(Val(hReq).token, outcome, now), now))
  /\ lastOp' = "respond"
  /\ UNCHANGED <<hReq, storeVars, tokenVars, gateVars, wsVars, dcOut, mw, rq>>

ResourceNext ==
  \/ \E transport \in {"lambda", "express"}, token \in BodyTokens : ResourceArrives(transport, token)
  \/ \E outcome \in {"value", "undefined", "coded", "error"} : ResourceHandle(outcome)
  \/ Tick

ResourceSpec == HttpInit /\ [][ResourceNext]_vars

(* C30: the response carries an authToken only when the exchange yielded a
   context, and then it is 200 with config that context and authToken the
   token generated from it (verifying to that context); when the exchange
   yielded nothing the response is 400 'Invalid or expired resource' and no
   token was generated *)
C30_TokenOnlyForContext ==
  hOut # None =>
    LET o == Val(hOut)
        token == Val(hReq).token
    IN /\ o.result # None =>
            /\ o.answer = Some("value")
            /\ o.statusCode = 200
            /\ o.generated = 1
            /\ Val(o.result).config = MkContext(Val(token))
            /\ Some(Val(o.result).authToken) =
                 generate(Val(o.result).config, DefaultTransientTTL, o.at).value
            /\ LET v == verify(Val(o.result).authToken, o.at)
               IN v.kind = "value"
                  /\ \A f \in DOMAIN Val(o.result).config :
                       Val(v.value)[f] = Val(o.result).config[f]
       /\ o.answer = Some("value") => o.result # None
       /\ o.generated > 0 => o.answer = Some("value")
       /\ o.answer = Some("undefined") =>
            /\ o.statusCode = 400
            /\ o.message = "Invalid or expired resource"
            /\ o.result = None
            /\ o.generated = 0

C30_Witness ==
  /\ hOut # None
  /\ Val(hOut).answer = Some("undefined")
  /\ Val(hOut).statusCode = 400
  /\ Val(hReq).token = Some("BAD")

----------------------------------------------------------------------------
(* HTTP normalizer (parseHttpEvent) *)

(* the most path segments of a request followed *)
MaxSegments == 3

(* the pieces path.split('/') gives after the leading slash; "" is an empty piece *)
PathPieces == {"", "api", "webchat", "send"}
HttpPathLists == UNION {[1..n -> PathPieces] : n \in 0..MaxSegments}

(* HTTP_BASE_PATH: not set, or '/api' *)
BasePaths == {<<>>, <<"api">>}

(* path.replace(new RegExp(`^${basePath}`), '') *)
StripBase(basePath, path) ==
  IF basePath # <<>> /\ Len(path) >= Len(basePath)
     /\ SubSeq(path, 1, Len(basePath)) = basePath
  THEN SubSeq(path, Len(basePath) + 1, Len(path))
  ELSE path

(* normalizedPath.split('/').filter(Boolean) *)
PathParts(basePath, path) == SelectSeq(StripBase(basePath, path), LAMBDA piece : piece # "")

(* parseHttpEvent(event): resource and action from the first two parts,      *)
(* parsedBody from safeJson(event.body)                                        *)
parseHttpEvent(basePath, path, body) ==
  LET pathParts == PathParts(basePath, path)
  IN [resource |-> IF Len(pathParts) >= 1 THEN Some(pathParts[1]) ELSE None,
      action |-> IF Len(pathParts) >= 2 THEN Some(pathParts[2]) ELSE None,
      parsedBody |-> safeJson(body)]

NormalizeArrives(basePath, path, body) ==
  /\ hReq = None
  /\ hReq' = Some([basePath |-> basePath, path |-> path, body |-> body])
  /\ hOut' = None
  /\ lastOp' = "request"
  /\ UNCHANGED <<storeVars, tokenVars, gateVars, wsVars, dcOut, mw, rq>>

NormalizeRun ==
  /\ hReq # None /\ hOut = None
  /\ hOut' = Some(parseHttpEvent(Val(hReq).basePath, Val(hReq).path, Val(hReq).body))
  /\ lastOp' = "parseHttpEvent"
  /\ UNCHANGED <<hReq, storeVars, tokenVars, gateVars, wsVars, dcOut, mw, rq>>

NormalizeInit == StoreStart /\ TokenIdle /\ GateIdle /\ WsIdle /\ HttpIdle

NormalizeNext ==
  \/ \E basePath \in BasePaths, path \in HttpPathLists, body \in FrameTexts :
       NormalizeArrives(basePath, path, body)
  \/ NormalizeRun

NormalizeSpec == NormalizeInit /\ [][NormalizeNext]_vars

(* C31: the normalized request always has a parsedBody that is a mapping, the
   empty one for an empty body and for a body that is not JSON; its resource
   and action are the first and second non-empty segment of the path after
   the base path, absent when the path has no such segment *)
C31_NormalizerTotal ==
  hOut # None =>
    LET o == Val(hOut)
        rest == StripBase(Val(hReq).basePath, Val(hReq).path)
        segs == SelectSeq(rest, LAMBDA piece : piece # "")
    IN /\ ~o.parsedBody.isNull
       /\ Val(hReq).body \in {"", "{oops"} => o.parsedBody = MkFrame(None, None, None, None)
       /\ o.resource = IF Len(segs) >= 1 THEN Some(segs[1]) ELSE None
       /\ o.action = IF Len(segs) >= 2 THEN Some(segs[2]) ELSE None

----------------------------------------------------------------------------
(* Re-authentication on one connection *)

(* frames a connection sends when it authenticates twice *)
MaxReauthFrames == 3

ReauthFrames ==
  { MkFrame(Some(<<"authenticate">>), Some("SHARE1"), Some("s1"), None),
    MkFrame(Some(<<"authenticate">>), Some("SHARE2"), Some("s1"), None),
    MkFrame(Some(<<"webchat", "send">>), None, Some("s1"), Some("hello")) }

(* a client that waits for each response before it sends its next frame *)
ReauthFrameArrives(c, f) ==
  /\ sock[c] = "open"
  /\ \A i \in DOMAIN tasks[c] : tasks[c][i].pc = "done"
  /\ Len(tasks[c]) < MaxReauthFrames
  /\ tasks' = [tasks EXCEPT ![c] = Append(@, NewTask(f, authOk[c]))]
  /\ sentAuth' = [sentAuth EXCEPT ![c] = @ \/ CommandKey(f) = AuthenticateCmd]
  /\ UNCHANGED lastOp
  /\ UNCHANGED <<storeVars, sock, registered, connectSave, disconnectDel, outbox, authOk>>
  /\ UNCHANGED <<tokenVars, gateVars, httpVars, dcOut>>

ReauthNext ==
  \/ \E c \in WsConns : Connect(c)
  \/ \E c \in WsConns : ConnectSaveDone(c)
  \/ \E c \in WsConns, f \in ReauthFrames : ReauthFrameArrives(c, f)
  \/ \E c \in WsConns, i \in 1..MaxReauthFrames : GetConn(c, i)
  \/ \E c \in WsConns, i \in 1..MaxReauthFrames, o \in {"value", "undefined", "coded", "error"} :
       BackendReturn(c, i, o)
  \/ \E c \in WsConns, i \in 1..MaxReauthFrames : AuthSave(c, i)
  \/ \E c \in WsConns, i \in 1..MaxReauthFrames : Send(c, i)
  \/ \E c \in WsConns : OnClose(c)
  \/ \E c \in WsConns : DisconnectDeleteDone(c)

ReauthSpec == WsInit /\ [][ReauthNext]_vars

(* C32: an authenticate that succeeds leaves the record holding its context,
   also on a connection that was authenticated before; and a business command
   is sent to the backend with the token of the latest authenticate that
   succeeded before it, never with an earlier one *)
C32_LatestAuthenticateWins ==
  /\ [](\A c \in WsConns : \A k \in DOMAIN tasks[c] :
          (tasks[c][k].call # None /\ Val(tasks[c][k].call).fn # "getConfiguration") =>
            LET auths == {j \in 1..(k - 1) : tasks[c][j].saved}
            IN /\ auths # {}
               /\ \E j \in auths :
                    /\ \A j2 \in auths : j2 <= j
                    /\ Val(tasks[c][k].call).shareableToken = Val(tasks[c][j].frame.token))
  /\ [][\A c \in WsConns : \A i \in DOMAIN tasks[c] :
          (tasks[c][i].pc = "save" /\ tasks'[c][i].saved) =>
            /\ store'[c] # None
            /\ Val(store'[c]).authenticated
            /\ Val(store'[c]).shareableContext = Some(MkContext(Val(tasks[c][i].frame.token)))]_vars

C32_Witness ==
  /\ Len(tasks["c1"]) = 3
  /\ tasks["c1"][1].saved /\ tasks["c1"][1].frame.token = Some("SHARE1")
  /\ tasks["c1"][2].saved /\ tasks["c1"][2].frame.token = Some("SHARE2")
  /\ tasks["c1"][3].call # None
  /\ Val(tasks["c1"][3].call).shareableToken = "SHARE2"

----------------------------------------------------------------------------
(* C33: a record that is authenticated stays authenticated for as long as it
   is stored: a step either leaves it authenticated or removes it; in
   particular the connect-time save taking effect late never replaces an
   authenticated record by the unauthenticated one *)
C33_AuthenticatedStays ==
  [][\A c \in ConnIds :
       (store[c] # None /\ Val(store[c]).authenticated) =>
         (store'[c] = None \/ Val(store'[c]).authenticated)]_vars

C33_Witness ==
  /\ backend = "dynamodb"
  /\ sock["c1"] = "open"
  /\ connectSave["c1"] = "done"
  /\ store["c1"] # None /\ Val(store["c1"]).authenticated
  /\ Len(tasks["c1"]) = 2
  /\ tasks["c1"][1].saved /\ tasks["c1"][1].pc = "done"
  /\ tasks["c1"][2].frame.command = Some(<<"authenticate">>)
  /\ tasks["c1"][2].frame.token = Some("BAD")
  /\ tasks["c1"][2].pc = "done"

----------------------------------------------------------------------------
(* C34: the save of a successful authenticate sets authenticated, the
   context and the sessionId of the connection's record and refreshes its ttl,
   and leaves its connectionId and connectedAt as the connect wrote them *)
C34_AuthenticateUpdatesInPlace ==
  [][\A c \in WsConns : \A i \in DOMAIN tasks[c] :
       (tasks[c][i].pc = "save" /\ tasks'[c][i].saved /\ store[c] # None) =>
         /\ store'[c] # None
         /\ Val(store'[c]).authenticated
         /\ Val(store'[c]).shareableContext = tasks[c][i].shareable
         /\ Val(store'[c]).sessionId = tasks[c][i].frame.sessionId
         /\ Val(store'[c]).ttl = now + ConnTTL
         /\ Val(store'[c]).connectionId = Val(store[c]).connectionId
         /\ Val(store'[c]).connectedAt = Val(store[c]).connectedAt]_vars

----------------------------------------------------------------------------
(* C35: a step of handling a frame that is not the save of a successful
   authenticate leaves every stored record as it is, except that reading an
   expired record removes it: it writes no record and refreshes no ttl *)
C35_OtherFramesLeaveStore ==
  [][(/\ tasks' # tasks
      /\ ~\E c \in WsConns : \E i \in DOMAIN tasks[c] :
            tasks[c][i].pc = "save" /\ tasks'[c][i].saved) =>
       \A c \in ConnIds :
         \/ store'[c] = store[c]
         \/ /\ store[c] # None
            /\ IsExpired(Val(store[c]), now)
            /\ store'[c] = None]_vars

C35_Witness ==
  /\ backend = "memory"
  /\ sock["c1"] = "open"
  /\ Len(tasks["c1"]) = 2
  /\ tasks["c1"][1].saved
  /\ tasks["c1"][2].frame.command = Some(<<"webchat", "send">>)
  /\ tasks["c1"][2].read /\ tasks["c1"][2].conn = None
  /\ store["c1"] = None

----------------------------------------------------------------------------
(* C36: a read returns null or a complete record as one save of that
   connection built it; a save, read or delete changes the record of at most
   one connection, its own, and the expiry sweep removes only expired
   records, so what a read of another connection's live record returns is not
   changed by them *)
C36_AtomicAndIsolated ==
  /\ []((lastOp = "get" /\ lastGet.result # None) =>
          LET r == Val(lastGet.result)
          IN /\ r = SaveRecord(lastGet.connectionId, r.shareableContext, r.sessionId, r.connectedAt)
             /\ r.connectedAt <= now
             /\ r.shareableContext # None => Val(r.shareableContext) \in Contexts)
  /\ [][/\ lastOp' \in {"save", "get", "delete"} =>
             \A a, b \in ConnIds : (store'[a] # store[a] /\ store'[b] # store[b]) => a = b
        /\ lastOp' = "save" =>
             \A a \in ConnIds : store'[a] # store[a] => Val(store'[a]).connectionId = a
        /\ lastOp' = "get" =>
             \A a \in ConnIds : store'[a] # store[a] => a = lastGet'.connectionId
        /\ lastOp' \in {"save", "get", "delete", "sweep"} =>
             \A b \in ConnIds :
               (store'[b] # store[b] /\ store[b] # None /\ ~IsExpired(Val(store[b]), now)) =>
                 \A a \in ConnIds \ {b} :
                   GetResult(backend, store', a, now) = GetResult(backend, store, a, now)]_vars

C36_Witness ==
  /\ lastOp = "get"
  /\ lastGet.connectionId = "c1"
  /\ lastGet.result # None
  /\ Val(lastGet.result).authenticated
  /\ now > Val(lastGet.result).connectedAt
  /\ store["c2"] # None /\ ~IsExpired(Val(store["c2"]), now)

----------------------------------------------------------------------------
(* The two connection managers side by side: here `store` holds the Map of
   the in-memory manager and the table of the DynamoDB manager, and every
   call is made on both *)

EmptyStore == [c \in ConnIds |-> None]

PairInit ==
  /\ backend = "both"
  /\ now = 0
  /\ store = [memory |-> EmptyStore, dynamodb |-> EmptyStore]
  /\ lastGet = [connectionId |-> "", memory |-> None, dynamodb |-> None]
  /\ lastOp = "init"
  /\ TokenIdle /\ GateIdle /\ WsIdle /\ HttpIdle

PairSave(c, ctx, sid) ==
  /\ store' = [memory |-> StorePut(store.memory, c, ctx, sid, now),
               dynamodb |-> StorePut(store.dynamodb, c, ctx, sid, now)]
  /\ lastOp' = "save"
  /\ UNCHANGED <<backend, now, lastGet>>
  /\ UNCHANGED nonStore

PairGet(c) ==
  /\ lastGet' = [connectionId |-> c,
                 memory |-> GetResult("memory", store.memory, c, now),
                 dynamodb |-> GetResult("dynamodb", store.dynamodb, c, now)]
  /\ store' = [memory |-> GetEffect("memory", store.memory, c, now),
               dynamodb |-> GetEffect("dynamodb", store.dynamodb, c, now)]
  /\ lastOp' = "get"
  /\ UNCHANGED <<backend, now>>
  /\ UNCHANGED nonStore

PairDelete(c) ==
  /\ store' = [memory |-> StoreRemove(store.memory, c),
               dynamodb |-> StoreRemove(store.dynamodb, c)]
  /\ lastOp' = "delete"
  /\ UNCHANGED <<backend, now, lastGet>>
  /\ UNCHANGED nonStore

(* the interval sweep of the in-memory manager *)
PairSweep ==
  /\ store' = [store EXCEPT !.memory = SweepResult(@, now)]
  /\ lastOp' = "sweep"
  /\ UNCHANGED <<backend, now, lastGet>>
  /\ UNCHANGED nonStore

(* DynamoDB's TTL process deletes an expired item at some later time *)
PairTtlDelete(c) ==
  /\ store.dynamodb[c] # None
  /\ IsExpired(Val(store.dynamodb[c]), now)
  /\ store' = [store EXCEPT !.dynamodb = StoreRemove(@, c)]
  /\ lastOp' = "ttl"
  /\ UNCHANGED <<backend, now, lastGet>>
  /\ UNCHANGED nonStore

PairNext ==
  \/ \E c \in ConnIds, ctx \in {None, Some(MkContext("SHARE1"))}, sid \in SessionIds :
       PairSave(c, ctx, sid)
  \/ \E c \in ConnIds : PairGet(c)
  \/ \E c \in ConnIds : PairDelete(c)
  \/ PairSweep
  \/ \E c \in ConnIds : PairTtlDelete(c)
  \/ Tick

PairSpec == PairInit /\ [][PairNext]_vars

(* C37: after the same calls and clock advances, a getConnection gets the
   same answer from the in-memory and from the DynamoDB manager *)
C37_ManagersAgree ==
  lastOp = "get" => lastGet.memory = lastGet.dynamodb

----------------------------------------------------------------------------
(* Listing connections by channel and by resource *)

(* contexts of two resources on different channels *)
ListContexts ==
  { MkContext("SHARE1"),
    [token |-> "SHARE2", type |-> "webchat", id |-> "r2", channels |-> <<"ch2">>] }

Channels == {"ch1", "ch2"}
ResourceIds == {"r1", "r2"}

(* record.shareableContext?.channels?.includes(channelId) /                  *)
(* contains(shareableContext.channels, :channelId)                            *)
OnChannel(record, channelId) ==
  /\ record.shareableContext # None
  /\ \E k \in DOMAIN Val(record.shareableContext).channels :
       Val(record.shareableContext).channels[k] = channelId

(* shareableContext.type = resourceType and shareableContext.id = resourceId *)
OfResource(record, resourceType, resourceId) ==
  /\ record.shareableContext # None
  /\ Val(record.shareableContext).type = resourceType
  /\ Val(record.shareableContext).id = resourceId

(* the records a listing goes over: the in-memory manager skips expired      *)
(* ones, the DynamoDB Scan has no condition on ttl                            *)
Listed(be, st, t) ==
  {Val(st[c]) : c \in {x \in ConnIds : st[x] # None /\ (be = "memory" => ~IsExpired(Val(st[x]), t))}}

getConnectionsByChannel(channelId) ==
  /\ lastGet' = [query |-> <<"channel", channelId>>,
                 records |-> {r \in Listed(backend, store, now) : OnChannel(r, channelId)}]
  /\ lastOp' = "list"
  /\ UNCHANGED <<backend, now, store>>
  /\ UNCHANGED nonStore

getConnectionsByResourceId(resourceType, resourceId) ==
  /\ lastGet' = [query |-> <<resourceType, resourceId>>,
                 records |-> {r \in Listed(backend, store, now) :
                                OfResource(r, resourceType, resourceId)}]
  /\ lastOp' = "list"
  /\ UNCHANGED <<backend, now, store>>
  /\ UNCHANGED nonStore

ListNext ==
  \/ \E c \in ConnIds, ctx \in {None} \cup {Some(x) : x \in ListContexts} :
       saveConnection(c, ctx, None)
  \/ \E c \in ConnIds : deleteConnection(c)
  \/ cleanupExpiredConnections
  \/ \E c \in ConnIds : DynamoTtlDelete(c)
  \/ \E channelId \in Channels : getConnectionsByChannel(channelId)
  \/ \E resourceId \in ResourceIds : getConnectionsByResourceId("webchat", resourceId)
  \/ Tick

ListSpec == StoreInit /\ [][ListNext]_vars

(* C39: a listing by channel returns exactly the stored records that have not
   expired and whose context has the channel, a listing by resource exactly
   those whose context has the type and id; records without a context and
   expired records are not returned *)
C39_ListsExact ==
  lastOp = "list" =>
    LET live == {Val(store[c]) : c \in {x \in ConnIds : store[x] # None /\ ~IsExpired(Val(store[x]), now)}}
    IN lastGet.records =
         IF lastGet.query[1] = "channel"
         THEN {r \in live : r.authenticated /\ lastGet.query[2] \in
                              {Val(r.shareableContext).channels[k] :
                                 k \in DOMAIN Val(r.shareableContext).channels}}
         ELSE {r \in live : r.authenticated /\ Val(r.shareableContext).type = lastGet.query[1]
                                            /\ Val(r.shareableContext).id = lastGet.query[2]}

----------------------------------------------------------------------------
(* Broadcast to a list of connections *)

(* the most connection ids one broadcast call is given *)
MaxTargets == 3

BroadcastTargets == UNION {[1..n -> ConnIds] : n \in 0..MaxTargets}

(* how the delivery to one connection ends: on Lambda the PostToConnection   *)
(* call succeeds, fails with 410 Gone or fails otherwise; on the native      *)
(* server the socket is OPEN and takes the frame, is missing or not OPEN, or *)
(* ws.send throws                                                             *)
DeliveryOutcomes(transport) ==
  IF transport = "lambda" THEN {"ok", "gone", "error"} ELSE {"ok", "notOpen", "throws"}

(* whether the callback of one connection pushes its id on staleConnections *)
MarkedStale(transport, outcome) ==
  IF transport = "lambda" THEN outcome = "gone" ELSE outcome \in {"notOpen", "throws"}

(* broadcast(endpoint, connectionIds, command, data): staleConnections        *)
(* collects the ids its callbacks push (here in list order), sent is          *)
(* connectionIds.length - staleConnections.length                             *)
broadcast(transport, connectionIds, outcomes) ==
  LET stalePositions == SelectSeq([k \in 1..Len(connectionIds) |-> k],
                                  LAMBDA k : MarkedStale(transport, outcomes[k]))
      staleConnections == [k \in 1..Len(stalePositions) |-> connectionIds[stalePositions[k]]]
  IN [sent |-> Len(connectionIds) - Len(staleConnections), stale |-> staleConnections]

BroadcastCall(transport, connectionIds, outcomes) ==
  /\ hReq = None
  /\ hReq' = Some([transport |-> transport, connectionIds |-> connectionIds,
                   outcomes |-> outcomes])
  /\ hOut' = None
  /\ lastOp' = "call"
  /\ UNCHANGED <<storeVars, tokenVars, gateVars, wsVars, dcOut, mw, rq>>

BroadcastReturn ==
  /\ hReq # None /\ hOut = None
  /\ hOut' = Some(broadcast(Val(hReq).transport, Val(hReq).connectionIds, Val(hReq).outcomes))
  /\ lastOp' = "broadcast"
  /\ UNCHANGED <<hReq, storeVars, tokenVars, gateVars, wsVars, dcOut, mw, rq>>

BroadcastNext ==
  \/ \E transport \in {"lambda", "express"}, connectionIds \in BroadcastTargets :
       \E outcomes \in [1..Len(connectionIds) -> DeliveryOutcomes(transport)] :
         BroadcastCall(transport, connectionIds, outcomes)
  \/ BroadcastReturn

BroadcastSpec == NormalizeInit /\ [][BroadcastNext]_vars

(* C40: broadcast returns sent and stale with sent + |stale| = |connectionIds|,
   sent is the number of connections the message was delivered to, and stale
   lists the connections it was not delivered to *)
C40_BroadcastCounts ==
  hOut # None =>
    LET ids == Val(hReq).connectionIds
        out == Val(hReq).outcomes
        o == Val(hOut)
        delivered == {k \in 1..Len(ids) : out[k] = "ok"}
    IN /\ o.sent + Len(o.stale) = Len(ids)
       /\ o.sent = Cardinality(delivered)
       /\ \A c \in ConnIds :
            Cardinality({k \in 1..Len(o.stale) : o.stale[k] = c})
              = Cardinality({k \in 1..Len(ids) : ids[k] = c /\ k \notin delivered})

----------------------------------------------------------------------------
(* One response per frame *)

(* C38: the handling of a frame on an open connection pushes exactly one frame
   to that connection by the time its push step is over, and the outbox of a
   connection grows only by the push step of one of its frames, one frame at a
   time *)
C38_OneResponsePerFrame ==
  [][\A c \in WsConns :
       LET pushed == {i \in DOMAIN tasks[c] :
                        /\ tasks[c][i].pc \notin {"close", "done"}
                        /\ tasks'[c][i].pc \in {"close", "done"}}
       IN /\ \A i \in pushed :
               (registered[c] /\ sock[c] = "open") =>
                 Len(outbox'[c]) = Len(outbox[c]) + 1
          /\ outbox'[c] # outbox[c] =>
               /\ Cardinality(pushed) = 1
               /\ Len(outbox'[c]) = Len(outbox[c]) + 1
    ]_vars

====
